---- MODULE Spec2Model ----
(***************************************************************************)
(* State-machine model of the CNTK v2 learners of                          *)
(* Source/CNTKv2LibraryDll/Learner.cpp: LearnerBase and its closed-form    *)
(* variants, LearnerUniversal, checkpointing and learning-rate schedule    *)
(* replacement.  Tensors are modelled over the integers (one integer per   *)
(* element); the numeric kernels of the Math library, the schedule lookup  *)
(* and the dictionary validation live outside Learner.cpp.                 *)
(***************************************************************************)
EXTENDS Integers, Sequences, FiniteSets, TLC

(***************************************************************************)
(* Bounds of the model                                                     *)
(***************************************************************************)
\* number of parameters owned by the learner
NumParams == 2
\* number of calls made on the learner after its construction
MaxCalls == 4
\* largest magnitude of the parameter values, gradients and learning rates of
\* the plain-SGD runs
MaxValue == 2
\* number of Update calls of a plain-SGD run
MaxSGDCalls == 2

(***************************************************************************)
(* Parameters and tensors                                                  *)
(***************************************************************************)
\* Parameters(): the owned parameters in construction order
Parameters == [i \in 1..NumParams |-> i]

ParameterSet == 1..NumParams

\* parameter.Uid(): the unique identifier used as a legacy checkpoint key
Uid(p) == "Parameter" \o ToString(p)

\* parameter.GetDataType()
ParamDataType(p) == IF p % 2 = 1 THEN "Float" ELSE "Double"

\* parameter.Shape() as {rows, cols}
ParamShape(p) == IF p % 2 = 1 THEN <<1, 1>> ELSE <<1, 2>>

RECURSIVE TotalSize(_)
\* NDShape::TotalSize(): product of the dimensions (1 for the empty shape)
TotalSize(shape) ==
    IF shape = <<>> THEN 1 ELSE Head(shape) * TotalSize(Tail(shape))

\* an NDArrayView whose elements all hold the same value
ConstView(dataType, shape, v) ==
    [dataType |-> dataType, shape |-> shape,
     data |-> [i \in 1..TotalSize(shape) |-> v]]

\* LearnerBase::AllocateNDArrayView: a zero tensor of the parameter's type
AllocateNDArrayView(p, shape) == ConstView(ParamDataType(p), shape, 0)

\* LearnerBase::GetMatrixShape: the parameter as a {rows, cols} matrix
GetMatrixShape(p) == ParamShape(p)

(***************************************************************************)
(* Learner variants and their auxiliary state                              *)
(***************************************************************************)
LearnerTypes ==
    {"SGD", "MomentumSGD", "Nesterov", "AdaGrad", "AdaDelta",
     "FSAdaGrad", "Adam", "RMSProp", "Universal"}

\* the variants that carry the m_smoothedCount scalar
HasSmoothedCount(type) == type \in {"FSAdaGrad", "Adam", "RMSProp"}

\* number of column blocks of the smoothed-gradient matrix (CPU device)
StateFactor(type) ==
    CASE type \in {"MomentumSGD", "Nesterov", "AdaGrad"} -> 1
      [] type \in {"AdaDelta", "FSAdaGrad", "Adam"} -> 2
      [] type = "RMSProp" -> 3
      [] OTHER -> 0

\* shape of the smoothed-gradient view the constructors allocate
SmoothedShape(type, p) ==
    IF StateFactor(type) = 0
    THEN <<>>
    ELSE <<GetMatrixShape(p)[1], StateFactor(type) * GetMatrixShape(p)[2]>>

(***************************************************************************)
(* Training-parameter schedules                                            *)
(***************************************************************************)
\* TrainingParameterSchedule::FullDataSweep: the epoch size of a sweep-based schedule
FullDataSweep == 0

\* a schedule is [m_schedule: map from unit count to value, m_epochSize]
MakeSchedule(entries, epochSize) ==
    [m_schedule |-> entries, m_epochSize |-> epochSize]

\* TrainingParameterSchedule::IsSweepBased
IsSweepBased(schedule) == schedule.m_epochSize = FullDataSweep

SetMax(S) == CHOOSE x \in S : \A y \in S : y <= x

SetMin(S) == CHOOSE x \in S : \A y \in S : x <= y

\* TrainingParameterSchedule::operator[]: the value at the greatest key <= count,
\* the earliest value when count precedes every key
ScheduleValueAt(schedule, count) ==
    LET keys == DOMAIN schedule.m_schedule
        below == {k \in keys : k <= count}
    IN  IF below = {} THEN schedule.m_schedule[SetMin(keys)]
        ELSE schedule.m_schedule[SetMax(below)]

RECURSIVE SortedEntries(_, _)
\* the (key, value) pairs of a map in increasing key order
SortedEntries(map, keys) ==
    IF keys = {} THEN <<>>
    ELSE LET k == SetMin(keys)
         IN  <<[key |-> k, value |-> map[k]]>> \o SortedEntries(map, keys \ {k})

\* TrainingParameterSchedule::Serialize: a dictionary holding the epoch size
\* and the list of entries
Serialize(schedule) ==
    [epochSize |-> schedule.m_epochSize,
     schedule |-> SortedEntries(schedule.m_schedule, DOMAIN schedule.m_schedule)]

\* TrainingParameterSchedule::Deserialize: rebuilds the map from the entry list
Deserialize(dict) ==
    LET entries == dict.schedule
        keys == {entries[i].key : i \in 1..Len(entries)}
    IN  [m_schedule |->
            [k \in keys |->
                entries[CHOOSE i \in 1..Len(entries) : entries[i].key = k].value],
         m_epochSize |-> dict.epochSize]

\* the learning-rate schedules a caller constructs: per-sample rates keyed by
\* relative unit count
ScheduleInputs ==
    { MakeSchedule((0 :> 1) @@ (2 :> 0), 2),
      MakeSchedule((0 :> 2) @@ (1 :> 0), FullDataSweep) }

\* the learning-rate schedule handed to the constructors of the closed-form
\* learners: rate 1 for the first two samples, 0 afterwards
ConstructorSchedule == MakeSchedule((0 :> 1) @@ (2 :> 0), 2)

\* LearningRateSchedule(Rate(1.0, 1)): the constant schedule of LearnerUniversal
UniversalSchedule == MakeSchedule((0 :> 1), FullDataSweep)

(***************************************************************************)
(* AdditionalLearningOptions                                               *)
(***************************************************************************)
\* numeric_limits<double>::infinity(), the default clipping threshold
Infinity == -1

\* AdditionalLearningOptions(): no clipping, no regularization, no noise
DefaultOptions ==
    [gradientClippingThresholdPerSample |-> Infinity,
     gradientClippingWithTruncation |-> TRUE,
     l2RegularizationWeight |-> 0,
     l1RegularizationWeight |-> 0,
     gaussianNoiseInjectionStdDev |-> 0]

\* the option sets a caller passes to the constructors
OptionInputs ==
    { DefaultOptions,
      [gradientClippingThresholdPerSample |-> 1,
       gradientClippingWithTruncation |-> TRUE,
       l2RegularizationWeight |-> 1,
       l1RegularizationWeight |-> 1,
       gaussianNoiseInjectionStdDev |-> 1] }

(***************************************************************************)
(* Hyperparameters of LearnerRMSProp and LearnerAdam: doubles, modelled as *)
(* multiples of 1 / HyperUnit or as NaN                                    *)
(***************************************************************************)
\* the number that stands for the double 1.0
HyperUnit == 2

\* the double of value v / HyperUnit
Double(v) == [isNaN |-> FALSE, value |-> v]

\* the double that is not a number
NaN == [isNaN |-> TRUE, value |-> 0]

\* a <= b on doubles: false as soon as an operand is NaN
LessOrEqual(a, b) == ~a.isNaN /\ ~b.isNaN /\ a.value <= b.value

\* a >= b on doubles: false as soon as an operand is NaN
GreaterOrEqual(a, b) == ~a.isNaN /\ ~b.isNaN /\ a.value >= b.value

\* a < b on doubles: false as soon as an operand is NaN
LessThan(a, b) == ~a.isNaN /\ ~b.isNaN /\ a.value < b.value

\* the hyperparameters the constructors of the modelled learners are given:
\* gamma 0.5, inc 1.5, dec 0.5, max 1.0, min 0.5 for RMSProp, epsilon 0 for Adam
ConstructorHyperParameters(type) ==
    CASE type = "RMSProp" ->
            [m_gamma |-> Double(1), m_inc |-> Double(3), m_dec |-> Double(1),
             m_max |-> Double(2), m_min |-> Double(1)]
      [] type = "Adam" -> [m_epsilon |-> Double(0)]
      [] OTHER -> <<>>

(***************************************************************************)
(* State                                                                   *)
(***************************************************************************)
VARIABLES
    learnerType,              \* which Learner subclass was constructed
    m_additionalOptions,      \* LearnerBase::m_additionalOptions
    m_hyperParameters,        \* m_gamma .. m_min of LearnerRMSProp, m_epsilon of LearnerAdam
    parameterValue,           \* parameter.Value() of every owned parameter
    valueTimeStamp,           \* number of RecordValueUpdate() calls per parameter
    m_smoothedGradientValues, \* LearnerBase::m_smoothedGradientValues
    m_sampleCount,            \* Learner::m_sampleCount
    m_minibatchCount,         \* Learner::m_minibatchCount
    m_sweepCount,             \* Learner::m_sweepCount
    m_learningRateSchedule,   \* Learner::m_learningRateSchedule
    m_noiseInjectionSeed,     \* LearnerBase::m_noiseInjectionSeed
    m_smoothedCount,          \* m_smoothedCount of FSAdaGrad, Adam and RMSProp
    m_trainingParametersMap,  \* LearnerBase::m_trainingParametersMap
    gradientConstants,        \* values of LearnerUniversal::m_parameter_gradient_map
    checkpoint,               \* the dictionary the caller keeps from CreateCheckpoint
    checkpointedCounters,     \* history: the elapsed counters when checkpoint was created
    call,                     \* the last call: operation, outcome, progress report
    calls                     \* number of calls made so far

vars ==
    <<learnerType, m_additionalOptions, m_hyperParameters, parameterValue,
      valueTimeStamp, m_smoothedGradientValues, m_sampleCount, m_minibatchCount, m_sweepCount,
      m_learningRateSchedule, m_noiseInjectionSeed, m_smoothedCount,
      m_trainingParametersMap, gradientConstants, checkpoint, checkpointedCounters,
      call, calls>>

(***************************************************************************)
(* Matrix operations used by the learners (element-wise, over integers)    *)
(***************************************************************************)
RECURSIVE SumSq(_)
\* sum of the squared elements
SumSq(data) ==
    IF data = <<>> THEN 0 ELSE Head(data) * Head(data) + SumSq(Tail(data))

\* floor of the square root
Isqrt(x) == CHOOSE r \in 0..x : r * r <= x /\ (r + 1) * (r + 1) > x

\* Matrix::ScaleAndAdd(alpha, a, c): c += alpha * a
ScaleAndAdd(alpha, a, c) == [i \in DOMAIN c |-> c[i] + alpha * a[i]]

\* Matrix::InplaceTruncate(threshold): clamps every element to [-threshold, threshold]
InplaceTruncate(data, threshold) ==
    [i \in DOMAIN data |->
        IF data[i] > threshold THEN threshold
        ELSE IF data[i] < -threshold THEN -threshold
        ELSE data[i]]

\* Matrix::InplaceSoftThreshold(threshold): the proximal step of the L1 penalty
InplaceSoftThreshold(data, threshold) ==
    [i \in DOMAIN data |->
        IF data[i] > threshold THEN data[i] - threshold
        ELSE IF data[i] < -threshold THEN data[i] + threshold
        ELSE 0]

\* Matrix::RandomGaussian(rows, cols, device, 0, stdDev, seed): a tensor that is
\* a function of the seed alone
RandomGaussian(size, stdDev, seed) ==
    [i \in 1..size |-> (((seed + i) % 3) - 1) * stdDev]

\* the j-th column block (of the parameter's size) of a smoothed-gradient matrix
Block(data, j, size) == [i \in 1..size |-> data[(j - 1) * size + i]]

(***************************************************************************)
(* Shared pre- and post-processing                                         *)
(***************************************************************************)
\* faulty variant of ClipGradient: the per-sample threshold is not multiplied by
\* the minibatch size
ClipGradientPerSample(options, gradient, actualMBSize) ==
    IF options.gradientClippingThresholdPerSample # Infinity
    THEN LET maxGradientPerMB == options.gradientClippingThresholdPerSample
         IN  IF options.gradientClippingWithTruncation
             THEN InplaceTruncate(gradient, maxGradientPerMB)
             ELSE IF SumSq(gradient) > maxGradientPerMB * maxGradientPerMB
                  THEN [i \in DOMAIN gradient |->
                           (gradient[i] * maxGradientPerMB) \div Isqrt(SumSq(gradient))]
                  ELSE gradient
    ELSE gradient

\* faulty variant of ClipGradient: the norm branch rescales every gradient, also
\* one whose norm is below the threshold
ClipGradientAlwaysRescaled(options, gradient, actualMBSize) ==
    IF options.gradientClippingThresholdPerSample # Infinity
    THEN LET maxGradientPerMB ==
                 options.gradientClippingThresholdPerSample * actualMBSize
         IN  IF options.gradientClippingWithTruncation
             THEN InplaceTruncate(gradient, maxGradientPerMB)
             ELSE IF SumSq(gradient) > 0
                  THEN [i \in DOMAIN gradient |->
                           (gradient[i] * maxGradientPerMB) \div Isqrt(SumSq(gradient))]
                  ELSE gradient
    ELSE gradient

\* LearnerBase::ClipGradient
ClipGradient(options, gradient, actualMBSize) ==
    IF options.gradientClippingThresholdPerSample # Infinity
    THEN LET maxGradientPerMB ==
                 options.gradientClippingThresholdPerSample * actualMBSize
         IN  IF options.gradientClippingWithTruncation
             THEN InplaceTruncate(gradient, maxGradientPerMB)
             ELSE IF SumSq(gradient) > maxGradientPerMB * maxGradientPerMB
                  THEN [i \in DOMAIN gradient |->
                           (gradient[i] * maxGradientPerMB) \div Isqrt(SumSq(gradient))]
                  ELSE gradient
    ELSE gradient

\* faulty variant of PreProcess: the L2 term is added before the gradient is
\* clipped
PreProcessRegularizedFirst(options, value, gradient, actualMBSize) ==
    IF options.l2RegularizationWeight > 0
    THEN ClipGradient(options,
                      ScaleAndAdd(options.l2RegularizationWeight * actualMBSize,
                                  value, gradient),
                      actualMBSize)
    ELSE ClipGradient(options, gradient, actualMBSize)

\* LearnerBase::PreProcess: the gradient handed to the update rule
PreProcess(options, value, gradient, actualMBSize) ==
    LET clipped == ClipGradient(options, gradient, actualMBSize)
    IN  IF options.l2RegularizationWeight > 0
        THEN ScaleAndAdd(options.l2RegularizationWeight * actualMBSize, value, clipped)
        ELSE clipped

\* faulty variant of PostProcess: the noise is drawn from the seed but the seed
\* is not advanced
PostProcessSeedKept(options, value, seed, learningRate, actualMBSize) ==
    LET stdDev == options.gaussianNoiseInjectionStdDev
        noisy == IF stdDev > 0
                 THEN ScaleAndAdd(1, RandomGaussian(Len(value), stdDev, seed), value)
                 ELSE value
        weight == learningRate * options.l1RegularizationWeight * actualMBSize
    IN  [value |-> IF options.l1RegularizationWeight > 0
                   THEN InplaceSoftThreshold(noisy, weight)
                   ELSE noisy,
         seed |-> seed]

\* LearnerBase::PostProcess: [value, seed] after noise injection and the L1 step
PostProcess(options, value, seed, learningRate, actualMBSize) ==
    LET stdDev == options.gaussianNoiseInjectionStdDev
        noisy == IF stdDev > 0
                 THEN ScaleAndAdd(1, RandomGaussian(Len(value), stdDev, seed), value)
                 ELSE value
        seed1 == IF stdDev > 0 THEN seed + 1 ELSE seed
        weight == learningRate * options.l1RegularizationWeight * actualMBSize
    IN  [value |-> IF options.l1RegularizationWeight > 0
                   THEN InplaceSoftThreshold(noisy, weight)
                   ELSE noisy,
         seed |-> seed1]

(***************************************************************************)
(* Per-variant update rules                                                *)
(***************************************************************************)
\* LearnerMomentumSGD::MomentumValueForMB: the per-minibatch momentum (constant
\* momentum schedule, no unit gain)
MomentumValueForMB == 1

\* the variants whose first block is a momentum-smoothed gradient
UsesMomentum(type) == type \in {"MomentumSGD", "Nesterov", "FSAdaGrad", "Adam"}

\* the Matrix update kernel of each variant: [value, smoothed] after the step
TypedUpdate(type, value, gradient, smoothed, learningRate) ==
    LET size == Len(value)
        k == StateFactor(type)
        mu == MomentumValueForMB
        sq == [i \in 1..size |-> gradient[i] * gradient[i]]
        b1 == IF k < 1 THEN <<>>
              ELSE IF UsesMomentum(type)
                   THEN ScaleAndAdd(mu, Block(smoothed, 1, size), gradient)
                   ELSE ScaleAndAdd(1, sq, Block(smoothed, 1, size))
        b2 == IF k < 2 THEN <<>> ELSE ScaleAndAdd(1, sq, Block(smoothed, 2, size))
        b3 == IF k < 3 THEN <<>> ELSE gradient
        step == CASE type = "Nesterov" -> ScaleAndAdd(mu, b1, gradient)
                  [] type \in {"MomentumSGD", "FSAdaGrad", "Adam"} -> b1
                  [] OTHER -> gradient
    IN  [value |-> ScaleAndAdd(-learningRate, step, value),
         smoothed |-> IF k = 0 THEN smoothed ELSE b1 \o b2 \o b3]

(***************************************************************************)
(* The learner as a value: the operations below map a learner state to the *)
(* learner state (and outcome) the C++ method leaves behind                *)
(***************************************************************************)
Learner ==
    [parameterValue |-> parameterValue,
     valueTimeStamp |-> valueTimeStamp,
     m_smoothedGradientValues |-> m_smoothedGradientValues,
     m_sampleCount |-> m_sampleCount,
     m_minibatchCount |-> m_minibatchCount,
     m_sweepCount |-> m_sweepCount,
     m_learningRateSchedule |-> m_learningRateSchedule,
     m_noiseInjectionSeed |-> m_noiseInjectionSeed,
     m_smoothedCount |-> m_smoothedCount,
     m_trainingParametersMap |-> m_trainingParametersMap,
     gradientConstants |-> gradientConstants]

\* the three elapsed counters of a learner state
Counters(st) ==
    [m_sampleCount |-> st.m_sampleCount,
     m_minibatchCount |-> st.m_minibatchCount,
     m_sweepCount |-> st.m_sweepCount]

\* the learner state st becomes the next state
Becomes(st) ==
    /\ parameterValue' = st.parameterValue
    /\ valueTimeStamp' = st.valueTimeStamp
    /\ m_smoothedGradientValues' = st.m_smoothedGradientValues
    /\ m_sampleCount' = st.m_sampleCount
    /\ m_minibatchCount' = st.m_minibatchCount
    /\ m_sweepCount' = st.m_sweepCount
    /\ m_learningRateSchedule' = st.m_learningRateSchedule
    /\ m_noiseInjectionSeed' = st.m_noiseInjectionSeed
    /\ m_smoothedCount' = st.m_smoothedCount
    /\ m_trainingParametersMap' = st.m_trainingParametersMap
    /\ gradientConstants' = st.gradientConstants

\* Learner::GetCurrentTrainingParameterValue: the schedule at the sweep count
\* if it is sweep-based, at the sample count otherwise
GetCurrentTrainingParameterValue(st, schedule) ==
    IF IsSweepBased(schedule)
    THEN ScheduleValueAt(schedule, st.m_sweepCount)
    ELSE ScheduleValueAt(schedule, st.m_sampleCount)

\* Learner::LearningRatePerSample: the current value of a per-sample schedule
LearningRatePerSample(st) ==
    GetCurrentTrainingParameterValue(st, st.m_learningRateSchedule)

\* faulty variant of ResetLearningRate: the new entries keep their relative keys
ResetLearningRateUnshifted(st, learningRateSchedule) ==
    [st EXCEPT !.m_learningRateSchedule = learningRateSchedule]

\* faulty variant of ResetLearningRate: the previous entries are not cleared
ResetLearningRateUncleared(st, learningRateSchedule) ==
    LET currentCount == IF IsSweepBased(learningRateSchedule)
                        THEN st.m_sweepCount ELSE st.m_sampleCount
        old == st.m_learningRateSchedule.m_schedule
        keys == {currentCount + k : k \in DOMAIN learningRateSchedule.m_schedule}
    IN  [st EXCEPT !.m_learningRateSchedule =
            [m_schedule |->
                [k \in keys \cup DOMAIN old |->
                    IF k \in keys THEN learningRateSchedule.m_schedule[k - currentCount]
                    ELSE old[k]],
             m_epochSize |-> learningRateSchedule.m_epochSize]]

\* Learner::ResetLearningRate
ResetLearningRate(st, learningRateSchedule) ==
    LET cleared == [m_schedule |-> <<>>,
                    m_epochSize |-> learningRateSchedule.m_epochSize]
        currentCount == IF IsSweepBased(cleared)
                        THEN st.m_sweepCount ELSE st.m_sampleCount
        keys == {currentCount + k : k \in DOMAIN learningRateSchedule.m_schedule}
    IN  [st EXCEPT !.m_learningRateSchedule =
            [cleared EXCEPT !.m_schedule =
                [k \in keys |-> learningRateSchedule.m_schedule[k - currentCount]]]]

\* faulty variant of ReportTrainingParameterValue: the value is written to the
\* sinks whether or not it has changed
ReportTrainingParameterValueAlways(st, name, value) ==
    [state |-> [st EXCEPT !.m_trainingParametersMap =
                   (name :> value) @@ st.m_trainingParametersMap],
     written |-> TRUE]

\* LearnerBase::ReportTrainingParameterValue: [state, whether the sinks were written]
ReportTrainingParameterValue(st, name, value) ==
    IF name \notin DOMAIN st.m_trainingParametersMap
       \/ st.m_trainingParametersMap[name] # value
    THEN [state |-> [st EXCEPT !.m_trainingParametersMap =
                        (name :> value) @@ st.m_trainingParametersMap],
          written |-> TRUE]
    ELSE [state |-> st, written |-> FALSE]

\* one unit of m_smoothedCount (the scalar is kept in units of 1 / SmoothedCountUnit)
SmoothedCountUnit == 2 ^ MaxCalls

\* UpdateOnMinibatch of LearnerBase (no-op), LearnerFSAdaGrad (variance
\* momentum 1/2), LearnerAdam and LearnerRMSProp
UpdateOnMinibatch(st, trainingSampleCount) ==
    CASE learnerType = "FSAdaGrad" ->
            [st EXCEPT !.m_smoothedCount =
                (@ + trainingSampleCount * SmoothedCountUnit) \div 2]
      [] learnerType \in {"Adam", "RMSProp"} ->
            [st EXCEPT !.m_smoothedCount = @ + SmoothedCountUnit]
      [] OTHER -> st

\* faulty variant of LearnerBase::Update<ElementType>: the variant's update rule
\* is not applied between PreProcess and PostProcess
UpdateParameterRuleSkipped(st, p, gradientValue, trainingSampleCount) ==
    LET post == PostProcess(m_additionalOptions, st.parameterValue[p],
                            st.m_noiseInjectionSeed, LearningRatePerSample(st),
                            trainingSampleCount)
    IN  [st EXCEPT !.parameterValue[p] = post.value,
                   !.m_noiseInjectionSeed = post.seed,
                   !.valueTimeStamp[p] = @ + 1]

\* faulty variant of LearnerBase::Update<ElementType>: the sample counter is
\* advanced as soon as one parameter has been processed
UpdateParameterCountingSamples(st, p, gradientValue, trainingSampleCount) ==
    LET gradient == PreProcess(m_additionalOptions, st.parameterValue[p],
                               gradientValue, trainingSampleCount)
        st1 == IF learnerType = "MomentumSGD"
               THEN ReportTrainingParameterValue(st, "Momentum", MomentumValueForMB).state
               ELSE st
        learningRate == LearningRatePerSample(st1)
        stepped == TypedUpdate(learnerType, st1.parameterValue[p], gradient,
                               st1.m_smoothedGradientValues[p].data, learningRate)
        post == PostProcess(m_additionalOptions, stepped.value,
                            st1.m_noiseInjectionSeed, LearningRatePerSample(st1),
                            trainingSampleCount)
    IN  [st1 EXCEPT !.parameterValue[p] = post.value,
                    !.m_smoothedGradientValues[p].data = stepped.smoothed,
                    !.m_noiseInjectionSeed = post.seed,
                    !.valueTimeStamp[p] = @ + 1,
                    !.m_sampleCount = @ + trainingSampleCount]

\* LearnerBase::Update<ElementType> of one parameter: PreProcess, the variant's
\* update, PostProcess and RecordValueUpdate
UpdateParameter(st, p, gradientValue, trainingSampleCount) ==
    LET gradient == PreProcess(m_additionalOptions, st.parameterValue[p],
                               gradientValue, trainingSampleCount)
        st1 == IF learnerType = "MomentumSGD"
               THEN ReportTrainingParameterValue(st, "Momentum", MomentumValueForMB).state
               ELSE st
        learningRate == LearningRatePerSample(st1)
        stepped == TypedUpdate(learnerType, st1.parameterValue[p], gradient,
                               st1.m_smoothedGradientValues[p].data, learningRate)
        post == PostProcess(m_additionalOptions, stepped.value,
                            st1.m_noiseInjectionSeed, LearningRatePerSample(st1),
                            trainingSampleCount)
    IN  [st1 EXCEPT !.parameterValue[p] = post.value,
                    !.m_smoothedGradientValues[p].data = stepped.smoothed,
                    !.m_noiseInjectionSeed = post.seed,
                    !.valueTimeStamp[p] = @ + 1]

RECURSIVE UpdateParametersAllOrNothing(_, _, _, _)
\* faulty variant of the Update loop: a missing gradient is detected before any
\* parameter is updated
UpdateParametersAllOrNothing(st, i, gradientValues, trainingSampleCount) ==
    IF \E j \in i..Len(Parameters) : Parameters[j] \notin DOMAIN gradientValues
    THEN [state |-> st, result |-> "out_of_range"]
    ELSE IF i > Len(Parameters)
         THEN [state |-> st, result |-> "done"]
         ELSE UpdateParametersAllOrNothing(
                  UpdateParameter(st, Parameters[i], gradientValues[Parameters[i]],
                                  trainingSampleCount),
                  i + 1, gradientValues, trainingSampleCount)

RECURSIVE UpdateParametersCountingSamples(_, _, _, _)
\* faulty variant of the Update loop: the sample counter is advanced after each
\* parameter instead of after the loop
UpdateParametersCountingSamples(st, i, gradientValues, trainingSampleCount) ==
    IF i > Len(Parameters)
    THEN [state |-> [st EXCEPT !.m_sampleCount =
                        @ - Len(Parameters) * trainingSampleCount],
          result |-> "done"]
    ELSE IF Parameters[i] \notin DOMAIN gradientValues
         THEN [state |-> st, result |-> "out_of_range"]
         ELSE UpdateParametersCountingSamples(
                  [UpdateParameter(st, Parameters[i], gradientValues[Parameters[i]],
                                   trainingSampleCount)
                      EXCEPT !.m_sampleCount = @ + trainingSampleCount],
                  i + 1, gradientValues, trainingSampleCount)

RECURSIVE UpdateParameters(_, _, _, _)
\* the loop of LearnerBase::Update over Parameters() from position i on:
\* gradientValues.at(parameter) throws when the gradient is missing
UpdateParameters(st, i, gradientValues, trainingSampleCount) ==
    IF i > Len(Parameters)
    THEN [state |-> st, result |-> "done"]
    ELSE IF Parameters[i] \notin DOMAIN gradientValues
         THEN [state |-> st, result |-> "out_of_range"]
         ELSE UpdateParameters(
                  UpdateParameter(st, Parameters[i], gradientValues[Parameters[i]],
                                  trainingSampleCount),
                  i + 1, gradientValues, trainingSampleCount)

\* faulty variant of the counter updates: the sample counter counts minibatches
AdvanceCountersByMinibatch(st, trainingSampleCount, sweepEnd) ==
    [st EXCEPT !.m_sampleCount = @ + 1,
               !.m_minibatchCount = @ + 1,
               !.m_sweepCount = IF sweepEnd THEN @ + 1 ELSE @]

\* the counter updates that end a successful Update
AdvanceCounters(st, trainingSampleCount, sweepEnd) ==
    [st EXCEPT !.m_sampleCount = @ + trainingSampleCount,
               !.m_minibatchCount = @ + 1,
               !.m_sweepCount = IF sweepEnd THEN @ + 1 ELSE @]

\* faulty variant of LearnerBase::Update: the zero learning rate does not end
\* the call
LearnerBaseUpdateAtZeroRate(st, gradientValues, trainingSampleCount, sweepEnd) ==
    LET report == ReportTrainingParameterValue(
                      st, "Learning rate", LearningRatePerSample(st))
        st1 == report.state
    IN  IF trainingSampleCount = 0
        THEN [state |-> st1, result |-> "InvalidArgument", reported |-> report.written]
        ELSE LET loop == UpdateParameters(
                             UpdateOnMinibatch(st1, trainingSampleCount), 1,
                             gradientValues, trainingSampleCount)
             IN  IF loop.result = "out_of_range"
                 THEN [state |-> loop.state, result |-> "out_of_range",
                       reported |-> report.written]
                 ELSE [state |-> AdvanceCounters(loop.state, trainingSampleCount, sweepEnd),
                       result |-> "true", reported |-> report.written]

\* faulty variant of LearnerBase::Update: UpdateOnMinibatch runs before the
\* zero-rate and empty-minibatch checks
LearnerBaseUpdateHookFirst(st, gradientValues, trainingSampleCount, sweepEnd) ==
    LET report == ReportTrainingParameterValue(
                      st, "Learning rate", LearningRatePerSample(st))
        st1 == UpdateOnMinibatch(report.state, trainingSampleCount)
    IN  IF LearningRatePerSample(st1) = 0
        THEN [state |-> st1, result |-> "false", reported |-> report.written]
        ELSE IF trainingSampleCount = 0
        THEN [state |-> st1, result |-> "InvalidArgument", reported |-> report.written]
        ELSE LET loop == UpdateParameters(st1, 1, gradientValues, trainingSampleCount)
             IN  IF loop.result = "out_of_range"
                 THEN [state |-> loop.state, result |-> "out_of_range",
                       reported |-> report.written]
                 ELSE [state |-> AdvanceCounters(loop.state, trainingSampleCount, sweepEnd),
                       result |-> "true", reported |-> report.written]

\* LearnerBase::Update: [state, result, reported]
LearnerBaseUpdate(st, gradientValues, trainingSampleCount, sweepEnd) ==
    LET report == ReportTrainingParameterValue(
                      st, "Learning rate", LearningRatePerSample(st))
        st1 == report.state
    IN  IF LearningRatePerSample(st1) = 0
        THEN [state |-> st1, result |-> "false", reported |-> report.written]
        ELSE IF trainingSampleCount = 0
        THEN [state |-> st1, result |-> "InvalidArgument", reported |-> report.written]
        ELSE LET loop == UpdateParameters(
                             UpdateOnMinibatch(st1, trainingSampleCount), 1,
                             gradientValues, trainingSampleCount)
             IN  IF loop.result = "out_of_range"
                 THEN [state |-> loop.state, result |-> "out_of_range",
                       reported |-> report.written]
                 ELSE [state |-> AdvanceCounters(loop.state, trainingSampleCount, sweepEnd),
                       result |-> "true", reported |-> report.written]

RECURSIVE SetGradientConstants(_, _, _)
\* the loop of LearnerUniversal::Update that copies each gradient into the
\* Constant bound to its parameter
SetGradientConstants(st, i, gradientValues) ==
    IF i > Len(Parameters)
    THEN [state |-> st, result |-> "done"]
    ELSE IF Parameters[i] \notin DOMAIN gradientValues
         THEN [state |-> st, result |-> "out_of_range"]
         ELSE SetGradientConstants(
                  [st EXCEPT !.gradientConstants[Parameters[i]] =
                                 gradientValues[Parameters[i]]],
                  i + 1, gradientValues)

\* m_update_func->Forward: the user's update function, here the assignment
\* parameter := parameter - gradient for every parameter
UpdateFunctionForward(st) ==
    [st EXCEPT !.parameterValue =
        [p \in ParameterSet |->
            ScaleAndAdd(-1, st.gradientConstants[p], st.parameterValue[p])]]

\* LearnerUniversal::Update: [state, result, reported]
LearnerUniversalUpdate(st, gradientValues, trainingSampleCount, sweepEnd) ==
    LET report == ReportTrainingParameterValue(
                      st, "Learning rate", LearningRatePerSample(st))
        st1 == report.state
    IN  IF LearningRatePerSample(st1) = 0
        THEN [state |-> st1, result |-> "false", reported |-> report.written]
        ELSE IF trainingSampleCount = 0
        THEN [state |-> st1, result |-> "InvalidArgument", reported |-> report.written]
        ELSE LET loop == SetGradientConstants(st1, 1, gradientValues)
             IN  IF loop.result = "out_of_range"
                 THEN [state |-> loop.state, result |-> "out_of_range",
                       reported |-> report.written]
                 ELSE [state |-> AdvanceCounters(UpdateFunctionForward(loop.state),
                                                 trainingSampleCount, sweepEnd),
                       result |-> "true", reported |-> report.written]

\* faulty variant of ResetSmoothedGradients: the overrides that reset
\* m_smoothedCount are missing
ResetSmoothedGradientsBaseOnly(st) ==
    [st EXCEPT !.m_smoothedGradientValues =
        [p \in ParameterSet |->
            [st.m_smoothedGradientValues[p] EXCEPT !.data = [i \in DOMAIN @ |-> 0]]]]

\* LearnerBase::ResetSmoothedGradients and its overrides in LearnerFSAdaGrad,
\* LearnerAdam and LearnerRMSProp
ResetSmoothedGradients(st) ==
    LET zeroed == [st EXCEPT !.m_smoothedGradientValues =
                      [p \in ParameterSet |->
                          [st.m_smoothedGradientValues[p] EXCEPT !.data =
                              [i \in DOMAIN @ |-> 0]]]]
    IN  IF HasSmoothedCount(learnerType)
        THEN [zeroed EXCEPT !.m_smoothedCount = 0]
        ELSE zeroed

(***************************************************************************)
(* Checkpoints                                                             *)
(***************************************************************************)
\* LearnerBase::CurrentVersion(): the version written into new checkpoints
CurrentVersion == 2

s_learnerTypeValue == "Learner"

versionKey == "version"

typeKey == "type"

sampleCountKey == "sampleCount"

minibatchCountKey == "minibatchCount"

learningRateScheduleKey == "learningRateSchedule"

noiseInjectionSeedKey == "noiseInjectionSeed"

smoothedGradientsKey == "smoothedGradients"

smoothedCountKey == "smoothedCount"

\* Dictionary(): the empty dictionary
EmptyDictionary == [k \in {} |-> 0]

\* Dictionary::Contains
Contains(dict, key) == key \in DOMAIN dict

\* the dictionary without one of its keys
Without(dict, key) == [k \in DOMAIN dict \ {key} |-> dict[k]]

\* LearnerBase::CreateCheckpoint
LearnerBaseCreateCheckpoint(st) ==
    (versionKey :> CurrentVersion)
    @@ (typeKey :> s_learnerTypeValue)
    @@ (sampleCountKey :> st.m_sampleCount)
    @@ (minibatchCountKey :> st.m_minibatchCount)
    @@ (learningRateScheduleKey :> Serialize(st.m_learningRateSchedule))
    @@ (noiseInjectionSeedKey :> st.m_noiseInjectionSeed)
    @@ (smoothedGradientsKey :>
            [i \in 1..Len(Parameters) |-> st.m_smoothedGradientValues[Parameters[i]]])

\* CreateCheckpoint as overridden by LearnerFSAdaGrad, LearnerAdam and LearnerRMSProp
CreateCheckpoint(st) ==
    IF HasSmoothedCount(learnerType)
    THEN (smoothedCountKey :> st.m_smoothedCount) @@ LearnerBaseCreateCheckpoint(st)
    ELSE LearnerBaseCreateCheckpoint(st)

\* ValidateDictionary<LearnerBase>: the version of a dictionary that has the
\* version key, the required keys and the expected type tag
ValidateDictionary(dict, requiredKeys, typeValue, currentVersion) ==
    IF /\ Contains(dict, versionKey)
       /\ \A k \in requiredKeys : Contains(dict, k)
       /\ Contains(dict, typeKey)
       /\ dict[typeKey] = typeValue
    THEN [ok |-> TRUE, version |-> dict[versionKey]]
    ELSE [ok |-> FALSE, version |-> 0]

s_requiredDictionaryKeys ==
    {typeKey, sampleCountKey, minibatchCountKey, learningRateScheduleKey}

\* the counter, seed and schedule assignments of LearnerBase::RestoreFromCheckpoint
RestoreCounters(st, dict) ==
    [st EXCEPT !.m_sampleCount = dict[sampleCountKey],
               !.m_minibatchCount = dict[minibatchCountKey],
               !.m_noiseInjectionSeed =
                   IF Contains(dict, noiseInjectionSeedKey)
                   THEN dict[noiseInjectionSeedKey] ELSE @,
               !.m_learningRateSchedule = Deserialize(dict[learningRateScheduleKey])]

\* faulty variant of getSmoothedGradValue: a legacy checkpoint is read under the
\* unique id of the first parameter, whatever the parameter
GetSmoothedGradValueFirstUid(version, dict, i, p) ==
    IF version >= 2
    THEN IF Len(dict[smoothedGradientsKey]) <= i - 1
         THEN [found |-> FALSE, value |-> <<>>]
         ELSE [found |-> TRUE, value |-> dict[smoothedGradientsKey][i]]
    ELSE IF ~Contains(dict, Uid(Parameters[1]))
         THEN [found |-> FALSE, value |-> <<>>]
         ELSE [found |-> TRUE, value |-> dict[Uid(Parameters[1])]]

\* getSmoothedGradValue: the checkpointed tensor of the i-th parameter, by
\* position for version >= 2 and by unique id before
GetSmoothedGradValue(version, dict, i, p) ==
    IF version >= 2
    THEN IF Len(dict[smoothedGradientsKey]) <= i - 1
         THEN [found |-> FALSE, value |-> <<>>]
         ELSE [found |-> TRUE, value |-> dict[smoothedGradientsKey][i]]
    ELSE IF ~Contains(dict, Uid(p))
         THEN [found |-> FALSE, value |-> <<>>]
         ELSE [found |-> TRUE, value |-> dict[Uid(p)]]

RECURSIVE RestoreSmoothedGradientsUnchecked(_, _, _, _)
\* faulty variant of the restore loop: the shape of the checkpointed tensor is
\* not compared with the live one
RestoreSmoothedGradientsUnchecked(st, i, version, dict) ==
    IF i > Len(Parameters)
    THEN [state |-> st, result |-> "void"]
    ELSE LET p == Parameters[i]
             got == GetSmoothedGradValue(version, dict, i, p)
             smoothedGradientValue == st.m_smoothedGradientValues[p]
         IN  IF ~got.found
             THEN [state |-> st, result |-> "LogicError: no smoothed gradient value"]
             ELSE IF smoothedGradientValue.dataType # got.value.dataType
             THEN [state |-> st, result |-> "LogicError: DataType"]
             ELSE RestoreSmoothedGradientsUnchecked(
                      [st EXCEPT !.m_smoothedGradientValues[p].data = got.value.data],
                      i + 1, version, dict)

RECURSIVE RestoreSmoothedGradients(_, _, _, _)
\* the per-parameter loop of LearnerBase::RestoreFromCheckpoint from position i on
RestoreSmoothedGradients(st, i, version, dict) ==
    IF i > Len(Parameters)
    THEN [state |-> st, result |-> "void"]
    ELSE LET p == Parameters[i]
             got == GetSmoothedGradValue(version, dict, i, p)
             smoothedGradientValue == st.m_smoothedGradientValues[p]
         IN  IF ~got.found
             THEN [state |-> st, result |-> "LogicError: no smoothed gradient value"]
             ELSE IF smoothedGradientValue.dataType # got.value.dataType
             THEN [state |-> st, result |-> "LogicError: DataType"]
             ELSE IF smoothedGradientValue.shape # got.value.shape
             THEN [state |-> st, result |-> "LogicError: Shape"]
             ELSE RestoreSmoothedGradients(
                      [st EXCEPT !.m_smoothedGradientValues[p].data = got.value.data],
                      i + 1, version, dict)

\* LearnerBase::RestoreFromCheckpoint: [state, result]
LearnerBaseRestoreFromCheckpoint(st, dict) ==
    LET valid == ValidateDictionary(dict, s_requiredDictionaryKeys,
                                    s_learnerTypeValue, CurrentVersion)
    IN  IF ~valid.ok
        THEN [state |-> st, result |-> "LogicError: dictionary"]
        ELSE IF valid.version >= 2 /\ ~Contains(dict, smoothedGradientsKey)
        THEN [state |-> st, result |-> "LogicError: dictionary"]
        ELSE RestoreSmoothedGradients(RestoreCounters(st, dict), 1, valid.version, dict)

\* faulty variant of RestoreFromCheckpoint: the overrides that restore
\* m_smoothedCount are missing
RestoreFromCheckpointBaseOnly(st, dict) == LearnerBaseRestoreFromCheckpoint(st, dict)

\* RestoreFromCheckpoint as overridden by LearnerFSAdaGrad, LearnerAdam and
\* LearnerRMSProp: the base restore, then m_smoothedCount
RestoreFromCheckpoint(st, dict) ==
    LET base == LearnerBaseRestoreFromCheckpoint(st, dict)
    IN  IF ~HasSmoothedCount(learnerType) \/ base.result # "void"
        THEN base
        ELSE IF ~Contains(dict, smoothedCountKey)
        THEN [state |-> base.state, result |-> "LogicError: dictionary"]
        ELSE [state |-> [base.state EXCEPT !.m_smoothedCount = dict[smoothedCountKey]],
              result |-> "void"]

(***************************************************************************)
(* Inputs offered by the caller                                            *)
(***************************************************************************)
\* the element value of a gradient tensor (all elements alike)
GradientElements == {2}

\* a gradient map that gives every parameter of D a tensor of its shape
GradientMap(D, g) == [p \in D |-> [i \in 1..TotalSize(ParamShape(p)) |-> g]]

\* the minibatch sizes handed to Update
SampleCountInputs == {0, 1, 2}

\* the arguments handed to Update: a complete gradient map with any minibatch
\* size, or a map that lacks one parameter
UpdateInputs ==
    { [gradientValues |-> GradientMap(ParameterSet, g),
       trainingSampleCount |-> n, sweepEnd |-> e] :
          g \in GradientElements, n \in SampleCountInputs, e \in BOOLEAN }
    \cup
    { [gradientValues |-> GradientMap(ParameterSet \ {q}, g),
       trainingSampleCount |-> 2, sweepEnd |-> TRUE] :
          g \in GradientElements, q \in ParameterSet }

\* a tensor whose element type differs from that of t
WithOtherDataType(t) ==
    [t EXCEPT !.dataType = IF @ = "Float" THEN "Double" ELSE "Float"]

\* a tensor whose shape differs from that of t
WithOtherShape(t) == ConstView(t.dataType, <<3, 1>>, 0)

\* the legacy (version 1) layout of a checkpoint: smoothed gradients stored
\* under the unique ids of the parameters in params, no noise seed
LegacyLayout(dict, params) ==
    LET top == Without(Without(dict, smoothedGradientsKey), noiseInjectionSeedKey)
    IN  [k \in DOMAIN top \cup {Uid(q) : q \in params} |->
            IF k = versionKey THEN 1
            ELSE IF k \in DOMAIN top THEN top[k]
            ELSE dict[smoothedGradientsKey][CHOOSE q \in params : Uid(q) = k]]

\* the ways the dictionary handed to RestoreFromCheckpoint may differ from the
\* one CreateCheckpoint returned
CheckpointVariants ==
    [kind : {"asSaved", "dropLast", "extraEntry", "noSampleCount",
             "noSmoothedCount", "legacy"}, p : {0}]
    \cup [kind : {"wrongDataType", "wrongShape", "legacyMissing"}, p : ParameterSet]

\* the dictionary of a variant of the saved checkpoint
VariantOf(dict, variant) ==
    LET list == dict[smoothedGradientsKey]
    IN  CASE variant.kind = "asSaved" -> dict
          [] variant.kind = "dropLast" ->
                [dict EXCEPT ![smoothedGradientsKey] = SubSeq(list, 1, Len(list) - 1)]
          [] variant.kind = "extraEntry" ->
                [dict EXCEPT ![smoothedGradientsKey] = Append(list, list[Len(list)])]
          [] variant.kind = "wrongDataType" ->
                [dict EXCEPT ![smoothedGradientsKey][variant.p] = WithOtherDataType(@)]
          [] variant.kind = "wrongShape" ->
                [dict EXCEPT ![smoothedGradientsKey][variant.p] = WithOtherShape(@)]
          [] variant.kind = "noSampleCount" -> Without(dict, sampleCountKey)
          [] variant.kind = "noSmoothedCount" -> Without(dict, smoothedCountKey)
          [] variant.kind = "legacy" -> LegacyLayout(dict, ParameterSet)
          [] variant.kind = "legacyMissing" ->
                LegacyLayout(dict, ParameterSet \ {variant.p})

(***************************************************************************)
(* Initial state: a freshly constructed learner                            *)
(***************************************************************************)
\* Internal::GenerateRandomSeed()
GenerateRandomSeed == 1

\* the value a parameter holds when the learner is constructed
InitialParameterValue(p) == [i \in 1..TotalSize(ParamShape(p)) |-> 2 * p - 1]

\* the record of a call: the operation, its outcome (return value or error)
\* and whether it wrote a value to the progress writers
Call(op, result, reported) == [op |-> op, result |-> result, reported |-> reported]

Init ==
    /\ learnerType \in LearnerTypes
    /\ m_additionalOptions \in
           IF learnerType = "Universal" THEN {DefaultOptions} ELSE OptionInputs
    /\ m_hyperParameters = ConstructorHyperParameters(learnerType)
    /\ m_learningRateSchedule =
           IF learnerType = "Universal" THEN UniversalSchedule ELSE ConstructorSchedule
    /\ parameterValue = [p \in ParameterSet |-> InitialParameterValue(p)]
    /\ valueTimeStamp = [p \in ParameterSet |-> 0]
    /\ m_smoothedGradientValues =
           [p \in ParameterSet |-> AllocateNDArrayView(p, SmoothedShape(learnerType, p))]
    /\ m_sampleCount = 0
    /\ m_minibatchCount = 0
    /\ m_sweepCount = 0
    /\ m_noiseInjectionSeed = GenerateRandomSeed
    /\ m_smoothedCount = 0
    /\ m_trainingParametersMap = EmptyDictionary
    /\ gradientConstants = [p \in ParameterSet |-> GradientMap(ParameterSet, 0)[p]]
    /\ checkpoint = EmptyDictionary
    /\ checkpointedCounters = Counters(Learner)
    /\ call = Call("construct", "void", FALSE)
    /\ calls = 0

(***************************************************************************)
(* Actions: one per public operation                                       *)
(***************************************************************************)
\* LearnerUniversal::Update of a single parameter: always a LogicError
LearnerUniversalUpdateParameter == "LogicError: single element update"

\* faulty variant of the dispatch: LearnerUniversal does not override the
\* minibatch-level Update, so LearnerBase::Update runs and reaches the
\* single-parameter Update of LearnerUniversal at the first parameter
UpdateOutcomeWithoutOverride(st, gradientValues, trainingSampleCount, sweepEnd) ==
    LET r == LearnerBaseUpdate(st, gradientValues, trainingSampleCount, sweepEnd)
    IN  IF /\ learnerType = "Universal"
           /\ r.result \in {"true", "out_of_range"}
           /\ Parameters[1] \in DOMAIN gradientValues
        THEN [state |-> ReportTrainingParameterValue(
                            st, "Learning rate", LearningRatePerSample(st)).state,
              result |-> LearnerUniversalUpdateParameter,
              reported |-> r.reported]
        ELSE r

\* the outcome of Learner::Update as dispatched to LearnerBase or LearnerUniversal
UpdateOutcome(st, gradientValues, trainingSampleCount, sweepEnd) ==
    IF learnerType = "Universal"
    THEN LearnerUniversalUpdate(st, gradientValues, trainingSampleCount, sweepEnd)
    ELSE LearnerBaseUpdate(st, gradientValues, trainingSampleCount, sweepEnd)

\* a call of Update(gradientValues, trainingSampleCount, sweepEnd)
UpdateCall(gradientValues, trainingSampleCount, sweepEnd) ==
    LET r == UpdateOutcome(Learner, gradientValues, trainingSampleCount, sweepEnd)
    IN  /\ calls < MaxCalls
        /\ Becomes(r.state)
        /\ call' = Call("Update", r.result, r.reported)
        /\ calls' = calls + 1
        /\ UNCHANGED <<learnerType, m_additionalOptions, m_hyperParameters, checkpoint,
                     checkpointedCounters>>

\* a call of ResetLearningRate(learningRateSchedule)
ResetLearningRateCall(learningRateSchedule) ==
    /\ calls < MaxCalls
    /\ Becomes(ResetLearningRate(Learner, learningRateSchedule))
    /\ call' = Call("ResetLearningRate", "void", FALSE)
    /\ calls' = calls + 1
    /\ UNCHANGED <<learnerType, m_additionalOptions, m_hyperParameters, checkpoint,
                     checkpointedCounters>>

\* a call of CreateCheckpoint(); the caller keeps the dictionary
CreateCheckpointCall ==
    /\ calls < MaxCalls
    /\ checkpoint' = CreateCheckpoint(Learner)
    /\ checkpointedCounters' = Counters(Learner)
    /\ call' = Call("CreateCheckpoint", "void", FALSE)
    /\ calls' = calls + 1
    /\ UNCHANGED <<learnerType, m_additionalOptions, m_hyperParameters,
                   parameterValue, valueTimeStamp, m_smoothedGradientValues, m_sampleCount, m_minibatchCount,
                   m_sweepCount, m_learningRateSchedule, m_noiseInjectionSeed,
                   m_smoothedCount, m_trainingParametersMap, gradientConstants>>

\* a call of RestoreFromCheckpoint with a variant of the kept dictionary
RestoreFromCheckpointCall(variant) ==
    LET r == RestoreFromCheckpoint(Learner, VariantOf(checkpoint, variant))
    IN  /\ calls < MaxCalls
        /\ checkpoint # EmptyDictionary
        /\ Becomes(r.state)
        /\ call' = Call("RestoreFromCheckpoint", r.result, FALSE)
        /\ calls' = calls + 1
        /\ UNCHANGED <<learnerType, m_additionalOptions, m_hyperParameters, checkpoint,
                     checkpointedCounters>>

\* a call of ResetSmoothedGradients()
ResetSmoothedGradientsCall ==
    /\ calls < MaxCalls
    /\ Becomes(ResetSmoothedGradients(Learner))
    /\ call' = Call("ResetSmoothedGradients", "void", FALSE)
    /\ calls' = calls + 1
    /\ UNCHANGED <<learnerType, m_additionalOptions, m_hyperParameters, checkpoint,
                     checkpointedCounters>>

Update ==
    \E in \in UpdateInputs :
        UpdateCall(in.gradientValues, in.trainingSampleCount, in.sweepEnd)

DoResetLearningRate ==
    \E learningRateSchedule \in ScheduleInputs :
        ResetLearningRateCall(learningRateSchedule)

DoRestoreFromCheckpoint ==
    \E variant \in CheckpointVariants : RestoreFromCheckpointCall(variant)

Next ==
    \/ Update
    \/ DoResetLearningRate
    \/ CreateCheckpointCall
    \/ DoRestoreFromCheckpoint
    \/ ResetSmoothedGradientsCall

Spec == Init /\ [][Next]_vars

(***************************************************************************)
(* Properties                                                              *)
(***************************************************************************)
IsLogicError(result) ==
    result \in {"LogicError: dictionary", "LogicError: no smoothed gradient value",
                "LogicError: DataType", "LogicError: Shape"}

\* the step is a call of Update
UpdateStep == call'.op = "Update" /\ calls' = calls + 1

\* the step is a call of RestoreFromCheckpoint
RestoreStep == call'.op = "RestoreFromCheckpoint" /\ calls' = calls + 1

\* C1: an Update call made while the learning-rate schedule evaluates to 0 at
\* the current elapsed count returns false and leaves every parameter value,
\* every smoothed-gradient tensor, the noise seed, m_smoothedCount and the
\* sample, minibatch and sweep counters as they were (base and universal learner).
C1_ZeroRateUpdateIsNoOp ==
    [][(UpdateStep /\ LearningRatePerSample(Learner) = 0)
        => /\ call'.result = "false"
           /\ UNCHANGED <<parameterValue, m_smoothedGradientValues,
                          m_noiseInjectionSeed, m_smoothedCount, m_sampleCount,
                          m_minibatchCount, m_sweepCount>>]_vars

\* an Update returned false on a learner that had been updated before
C1_Witness ==
    /\ call.op = "Update"
    /\ call.result = "false"
    /\ m_minibatchCount > 0
    /\ LearningRatePerSample(Learner) = 0

\* C2: an Update(gradients, n, sweepEnd) call that returns true adds n to the
\* sample counter, 1 to the minibatch counter and 1 to the sweep counter exactly
\* if sweepEnd; no Update or ResetLearningRate call decreases a counter.
C2_CountersAdvance ==
    [][/\ (UpdateStep /\ call'.result = "true")
            => \A in \in UpdateInputs :
                  UpdateCall(in.gradientValues, in.trainingSampleCount, in.sweepEnd)
                  => /\ m_sampleCount' = m_sampleCount + in.trainingSampleCount
                     /\ m_minibatchCount' = m_minibatchCount + 1
                     /\ m_sweepCount' = m_sweepCount + (IF in.sweepEnd THEN 1 ELSE 0)
       /\ call'.op \in {"Update", "ResetLearningRate"}
            => /\ m_sampleCount' >= m_sampleCount
               /\ m_minibatchCount' >= m_minibatchCount
               /\ m_sweepCount' >= m_sweepCount]_vars

\* a successful Update of two samples that ended a sweep
C2_Witness ==
    /\ call.op = "Update"
    /\ call.result = "true"
    /\ m_sampleCount = 2
    /\ m_minibatchCount = 1
    /\ m_sweepCount = 1

\* C3: Update with sampleCount = 0 fails with an invalid-argument error in every
\* state, whatever the learning rate evaluates to, and mutates no parameter,
\* auxiliary state or counter.
C3_EmptyMinibatchIsInvalidArgument ==
    [][\A in \in UpdateInputs :
            (in.trainingSampleCount = 0
             /\ UpdateCall(in.gradientValues, in.trainingSampleCount, in.sweepEnd))
            => /\ call'.result = "InvalidArgument"
               /\ UNCHANGED <<parameterValue, m_smoothedGradientValues,
                              m_smoothedCount, m_sampleCount, m_minibatchCount,
                              m_sweepCount>>]_vars

\* C4: Update with a non-zero learning rate and sampleCount > 0 fails with a
\* lookup error when the gradient of an owned parameter is missing; the three
\* counters are then not advanced, and in LearnerBase::Update the parameters
\* before the missing one have been updated and UpdateOnMinibatch has run.
C4_MissingGradient ==
    [][\A in \in UpdateInputs :
            (/\ UpdateStep
             /\ LearningRatePerSample(Learner) # 0
             /\ in.trainingSampleCount > 0
             /\ DOMAIN in.gradientValues # ParameterSet
             /\ UpdateCall(in.gradientValues, in.trainingSampleCount, in.sweepEnd))
            => /\ call'.result = "out_of_range"
               /\ UNCHANGED <<m_sampleCount, m_minibatchCount, m_sweepCount>>
               /\ learnerType # "Universal" =>
                    /\ \A i \in 1..Len(Parameters) :
                          (\A j \in 1..i : Parameters[j] \in DOMAIN in.gradientValues)
                          => valueTimeStamp'[Parameters[i]]
                                 = valueTimeStamp[Parameters[i]] + 1
                    /\ m_smoothedCount'
                          = UpdateOnMinibatch(Learner, in.trainingSampleCount).m_smoothedCount
                    /\ learnerType \in {"Adam", "RMSProp"}
                          => m_smoothedCount' = m_smoothedCount + SmoothedCountUnit]_vars

\* an Adam Update failed on the second parameter after updating the first
C4_Witness ==
    /\ call.op = "Update"
    /\ call.result = "out_of_range"
    /\ learnerType = "Adam"
    /\ valueTimeStamp[Parameters[1]] = 1
    /\ valueTimeStamp[Parameters[2]] = 0
    /\ m_smoothedCount = SmoothedCountUnit
    /\ m_minibatchCount = 0

\* the learner state after CreateCheckpoint, ResetSmoothedGradients and
\* RestoreFromCheckpoint of that checkpoint, performed in the current state
CheckpointCycle ==
    RestoreFromCheckpoint(ResetSmoothedGradients(Learner), CreateCheckpoint(Learner))

\* C5: in every reachable state, CreateCheckpoint, ResetSmoothedGradients and
\* RestoreFromCheckpoint of that checkpoint reproduce the smoothed gradients,
\* the three counters, the learning-rate schedule, the noise seed and
\* m_smoothedCount, and change no parameter value.
C5_CheckpointCycleRestores ==
    /\ CheckpointCycle.result = "void"
    /\ CheckpointCycle.state.m_smoothedGradientValues = m_smoothedGradientValues
    /\ Counters(CheckpointCycle.state) = Counters(Learner)
    /\ CheckpointCycle.state.m_learningRateSchedule = m_learningRateSchedule
    /\ CheckpointCycle.state.m_noiseInjectionSeed = m_noiseInjectionSeed
    /\ CheckpointCycle.state.m_smoothedCount = m_smoothedCount
    /\ CheckpointCycle.state.parameterValue = parameterValue

\* a trained Adam learner whose reset state differs from its state in the
\* smoothed gradients and in m_smoothedCount, and whose cycle restores both
C5_Witness ==
    /\ learnerType = "Adam"
    /\ m_smoothedCount > 0
    /\ m_sweepCount > 0
    /\ \A p \in ParameterSet : \E i \in DOMAIN m_smoothedGradientValues[p].data :
           m_smoothedGradientValues[p].data[i] # 0
    /\ ResetSmoothedGradients(Learner).m_smoothedCount = 0
    /\ CheckpointCycle.state.m_smoothedGradientValues = m_smoothedGradientValues
    /\ CheckpointCycle.state.m_smoothedCount = m_smoothedCount

\* C6: after a successful RestoreFromCheckpoint the sample, minibatch and sweep
\* counters equal the values the learner had when the checkpoint was created.
C6_AllCountersCheckpointed ==
    (call.op = "RestoreFromCheckpoint" /\ call.result = "void")
    => Counters(Learner) = checkpointedCounters

\* C7: replacing the schedule at elapsed time t0 by a schedule whose first
\* entry is at relative time 0 makes the lookup at t0 return that entry's
\* value, for sample-based and sweep-based schedules.
C7_NewScheduleTakesEffectNow ==
    [][\A new \in ScheduleInputs :
            (ResetLearningRateCall(new) /\ 0 \in DOMAIN new.m_schedule)
            => LearningRatePerSample(Learner') = new.m_schedule[0]]_vars

\* a sweep-based schedule installed after the first sweep is in effect
C7_Witness ==
    /\ call.op = "ResetLearningRate"
    /\ m_sweepCount > 0
    /\ m_sampleCount > 0
    /\ IsSweepBased(m_learningRateSchedule)
    /\ LearningRatePerSample(Learner) = 2

\* C8: ResetLearningRate(new) discards the previous entries and stores each
\* entry of new at currentCount + relativeTime, currentCount being the sweep
\* counter for a sweep-based new schedule and the sample counter otherwise; the
\* counters, parameters and smoothed gradients are unchanged.
C8_ResetLearningRateShiftsEntries ==
    [][\A new \in ScheduleInputs :
            ResetLearningRateCall(new)
            => LET currentCount == IF IsSweepBased(new)
                                   THEN m_sweepCount ELSE m_sampleCount
                   stored == m_learningRateSchedule'.m_schedule
               IN  /\ DOMAIN stored = {currentCount + k : k \in DOMAIN new.m_schedule}
                   /\ \A k \in DOMAIN new.m_schedule :
                          stored[currentCount + k] = new.m_schedule[k]
                   /\ UNCHANGED <<m_sampleCount, m_minibatchCount, m_sweepCount,
                                  parameterValue, m_smoothedGradientValues>>]_vars

\* a sample-based schedule installed after two samples
C8_Witness ==
    /\ call.op = "ResetLearningRate"
    /\ m_sampleCount = 2
    /\ ~IsSweepBased(m_learningRateSchedule)
    /\ DOMAIN m_learningRateSchedule.m_schedule = {2, 4}

\* the checkpointed tensor of the i-th parameter in a dictionary, if any
CheckpointedValue(dict, i) ==
    GetSmoothedGradValue(dict[versionKey], dict, i, Parameters[i])

\* the checkpointed tensor of the i-th parameter differs from the live
\* smoothed-gradient tensor in element type or in shape
Mismatch(dict, i) ==
    /\ CheckpointedValue(dict, i).found
    /\ \/ CheckpointedValue(dict, i).value.dataType
              # m_smoothedGradientValues[Parameters[i]].dataType
       \/ CheckpointedValue(dict, i).value.shape
              # m_smoothedGradientValues[Parameters[i]].shape

\* C9: RestoreFromCheckpoint fails with a consistency error when the
\* checkpointed tensor of some parameter differs from the live smoothed-gradient
\* tensor in element type or shape; the smoothed gradients of that parameter
\* and of every later one are then not overwritten; without such a mismatch,
\* in a dictionary that has the required keys, every parameter whose entry is
\* reached is overwritten with its checkpointed value.
C9_RestoreChecksTypeAndShape ==
    [][RestoreStep =>
        \A variant \in CheckpointVariants :
            RestoreFromCheckpointCall(variant)
            => LET dict == VariantOf(checkpoint, variant)
                   indices == 1..Len(Parameters)
               IN  /\ (\E i \in indices : Mismatch(dict, i))
                         => IsLogicError(call'.result)
                   /\ \A i \in indices :
                         Mismatch(dict, i)
                         => \A j \in i..Len(Parameters) :
                               m_smoothedGradientValues'[Parameters[j]]
                                   = m_smoothedGradientValues[Parameters[j]]
                   /\ (/\ \A i \in indices : ~Mismatch(dict, i)
                       /\ s_requiredDictionaryKeys \subseteq DOMAIN dict)
                         => \A i \in indices :
                               (\A j \in 1..i : CheckpointedValue(dict, j).found)
                               => m_smoothedGradientValues'[Parameters[i]].data
                                      = CheckpointedValue(dict, i).value.data]_vars

\* a restore that overwrote the first parameter's zeroed smoothed gradient and
\* stopped at the shape of the second
C9_Witness ==
    /\ call.op = "RestoreFromCheckpoint"
    /\ call.result = "LogicError: Shape"
    /\ learnerType = "MomentumSGD"
    /\ \E i \in DOMAIN m_smoothedGradientValues[Parameters[1]].data :
           m_smoothedGradientValues[Parameters[1]].data[i] # 0
    /\ \A i \in DOMAIN m_smoothedGradientValues[Parameters[2]].data :
           m_smoothedGradientValues[Parameters[2]].data[i] = 0
    /\ \E i \in DOMAIN checkpoint[smoothedGradientsKey][2].data :
           checkpoint[smoothedGradientsKey][2].data[i] # 0

\* C10: RestoreFromCheckpoint of a version >= 2 checkpoint fails unless the
\* smoothed-gradients list has exactly as many entries as the learner has
\* parameters, with fewer entries and with more entries alike.
C10_EntryCountMustMatch ==
    [][\A variant \in CheckpointVariants :
            (/\ RestoreStep
             /\ RestoreFromCheckpointCall(variant)
             /\ VariantOf(checkpoint, variant)[versionKey] >= 2
             /\ Len(VariantOf(checkpoint, variant)[smoothedGradientsKey])
                    # Len(Parameters))
            => IsLogicError(call'.result)]_vars

\* C11: RestoreFromCheckpoint is all-or-nothing: when it fails with a
\* consistency error, the sample counter, the minibatch counter, the noise
\* seed, the learning-rate schedule and every smoothed-gradient tensor keep the
\* values they had before the call.
C11_RestoreIsAllOrNothing ==
    [][(RestoreStep /\ IsLogicError(call'.result))
        => UNCHANGED <<m_sampleCount, m_minibatchCount, m_noiseInjectionSeed,
                       m_learningRateSchedule, m_smoothedGradientValues>>]_vars

\* a legacy dictionary: version below 2 and no noise-seed field
IsLegacy(dict) ==
    /\ Contains(dict, versionKey)
    /\ dict[versionKey] < 2
    /\ ~Contains(dict, noiseInjectionSeedKey)

\* C12: restoring a legacy (version < 2) checkpoint without a noise-seed field
\* that stores, for every parameter, a tensor of matching type and shape under
\* the parameter's unique id succeeds, leaves the noise seed as it was and sets
\* each parameter's smoothed gradient from the entry keyed by its own unique
\* id; if the entry of some parameter's unique id is absent, the restore fails.
C12_LegacyRestore ==
    [][\A variant \in CheckpointVariants :
            (/\ RestoreStep
             /\ checkpoint # EmptyDictionary
             /\ IsLegacy(VariantOf(checkpoint, variant))
             /\ RestoreFromCheckpointCall(variant))
            => LET dict == VariantOf(checkpoint, variant)
               IN  IF \A p \in ParameterSet : Contains(dict, Uid(p))
                   THEN (\A p \in ParameterSet :
                            /\ dict[Uid(p)].dataType = m_smoothedGradientValues[p].dataType
                            /\ dict[Uid(p)].shape = m_smoothedGradientValues[p].shape)
                        => /\ call'.result = "void"
                           /\ m_noiseInjectionSeed' = m_noiseInjectionSeed
                           /\ \A p \in ParameterSet :
                                 m_smoothedGradientValues'[p] = dict[Uid(p)]
                   ELSE IsLogicError(call'.result)]_vars

\* a legacy restore on a trained MomentumSGD learner with noise injection: the
\* smoothed gradients are the checkpointed non-zero ones while the seed has
\* moved on since the checkpoint was created
C12_Witness ==
    /\ call.op = "RestoreFromCheckpoint"
    /\ call.result = "void"
    /\ learnerType = "MomentumSGD"
    /\ m_noiseInjectionSeed # checkpoint[noiseInjectionSeedKey]
    /\ \A i \in 1..Len(Parameters) :
          /\ m_smoothedGradientValues[Parameters[i]] = checkpoint[smoothedGradientsKey][i]
          /\ \E j \in DOMAIN m_smoothedGradientValues[Parameters[i]].data :
                m_smoothedGradientValues[Parameters[i]].data[j] # 0

(***************************************************************************)
(* Plain SGD: a LearnerSGD with default options, a constant learning rate  *)
(* and parameters of any initial value, updated with one-sample minibatches *)
(***************************************************************************)
\* the parameter values and gradient elements of the plain-SGD runs
ValueInputs == -MaxValue..MaxValue

\* the constant per-sample learning rates of the plain-SGD runs
RateInputs == 0..MaxValue

\* a LearnerSGD constructed with AdditionalLearningOptions() and a constant schedule
InitSGD ==
    /\ learnerType = "SGD"
    /\ m_additionalOptions = DefaultOptions
    /\ m_hyperParameters = ConstructorHyperParameters(learnerType)
    /\ \E eta \in RateInputs : m_learningRateSchedule = MakeSchedule((0 :> eta), 1)
    /\ \E v \in ValueInputs :
          parameterValue = [p \in ParameterSet |-> ConstView("", ParamShape(p), v).data]
    /\ valueTimeStamp = [p \in ParameterSet |-> 0]
    /\ m_smoothedGradientValues =
           [p \in ParameterSet |-> AllocateNDArrayView(p, SmoothedShape(learnerType, p))]
    /\ m_sampleCount = 0
    /\ m_minibatchCount = 0
    /\ m_sweepCount = 0
    /\ m_noiseInjectionSeed = GenerateRandomSeed
    /\ m_smoothedCount = 0
    /\ m_trainingParametersMap = EmptyDictionary
    /\ gradientConstants = [p \in ParameterSet |-> GradientMap(ParameterSet, 0)[p]]
    /\ checkpoint = EmptyDictionary
    /\ checkpointedCounters = Counters(Learner)
    /\ call = Call("construct", "void", FALSE)
    /\ calls = 0

\* Update with a one-sample minibatch and any offered gradient
UpdateSGD ==
    \E g \in ValueInputs, sweepEnd \in BOOLEAN :
        /\ calls < MaxSGDCalls
        /\ UpdateCall(GradientMap(ParameterSet, g), 1, sweepEnd)

NextSGD == UpdateSGD

SpecSGD == InitSGD /\ [][NextSGD]_vars

\* C13: on a plain SGD learner (no clipping, zero L1 and L2 weights, zero
\* noise) with per-sample learning rate eta, a successful Update with gradient
\* g and sampleCount = 1 leaves every parameter element p at exactly p - eta * g.
C13_PlainSGDStep ==
    [][\A g \in ValueInputs, sweepEnd \in BOOLEAN :
            (/\ UpdateStep
             /\ call'.result = "true"
             /\ learnerType = "SGD"
             /\ m_additionalOptions = DefaultOptions
             /\ UpdateCall(GradientMap(ParameterSet, g), 1, sweepEnd))
            => \A p \in ParameterSet : \A i \in DOMAIN parameterValue[p] :
                  parameterValue'[p][i]
                      = parameterValue[p][i] - LearningRatePerSample(Learner) * g]_vars

\* the first Update took the least parameter value down by the largest rate
\* times the largest gradient
C13_Witness ==
    /\ call.op = "Update"
    /\ call.result = "true"
    /\ learnerType = "SGD"
    /\ m_minibatchCount = 1
    /\ LearningRatePerSample(Learner) = MaxValue
    /\ \A p \in ParameterSet : \A i \in DOMAIN parameterValue[p] :
          parameterValue[p][i] = (-MaxValue) - MaxValue * MaxValue

(***************************************************************************)
(* Construction: the caller has no learner yet and constructs one          *)
(***************************************************************************)
\* the elements of a parameter list
Range(list) == {list[i] : i \in 1..Len(list)}

\* faulty variant of the LearnerBase constructor: duplicates are not looked for
LearnerBaseConstructorUnchecked(parameters) ==
    IF parameters = <<>> THEN "InvalidArgument: parameters" ELSE "void"

\* LearnerBase::LearnerBase: the checks on the parameter list
LearnerBaseConstructor(parameters) ==
    IF parameters = <<>>
    THEN "InvalidArgument: parameters"
    ELSE IF Cardinality(Range(parameters)) # Len(parameters)
    THEN "InvalidArgument: parameters"
    ELSE "void"

\* LearnerRMSProp::LearnerRMSProp: the validation of gamma, inc, dec, max and min
RMSPropSettings(h) ==
    IF LessOrEqual(h.m_gamma, Double(0)) \/ GreaterOrEqual(h.m_gamma, Double(HyperUnit))
    THEN "LogicError: RMSProp"
    ELSE IF LessOrEqual(h.m_inc, Double(HyperUnit))
    THEN "LogicError: RMSProp"
    ELSE IF LessOrEqual(h.m_dec, Double(0)) \/ GreaterOrEqual(h.m_dec, Double(HyperUnit))
    THEN "LogicError: RMSProp"
    ELSE IF LessOrEqual(h.m_max, Double(0)) \/ LessOrEqual(h.m_max, h.m_min)
    THEN "LogicError: RMSProp"
    ELSE IF LessOrEqual(h.m_min, Double(0))
    THEN "LogicError: RMSProp"
    ELSE "void"

\* the outcome of constructing a learner of the given type: the LearnerBase
\* checks first, then the checks of the subclass constructor
ConstructorOutcome(type, parameters, hyperParameters) ==
    IF LearnerBaseConstructor(parameters) # "void"
    THEN LearnerBaseConstructor(parameters)
    ELSE IF type = "Adam" /\ LessThan(hyperParameters.m_epsilon, Double(0))
    THEN "InvalidArgument: epsilon"
    ELSE IF type = "RMSProp"
    THEN RMSPropSettings(hyperParameters)
    ELSE "void"

\* the parameter lists handed to a constructor: any list over the parameters,
\* empty and with repetitions included
ParameterLists == UNION {[1..n -> ParameterSet] : n \in 0..NumParams}

\* the doubles handed to a constructor: NaN, 0, 0.5, 1.0, 1.5
DoubleInputs == {NaN} \cup {Double(v) : v \in 0..(HyperUnit + 1)}

\* the hyperparameters handed to the constructor of a learner type
HyperParameterInputs(type) ==
    CASE type = "RMSProp" ->
            [m_gamma : DoubleInputs, m_inc : DoubleInputs, m_dec : DoubleInputs,
             m_max : DoubleInputs, m_min : DoubleInputs]
      [] type = "Adam" -> [m_epsilon : DoubleInputs \cup {Double(-1)}]
      [] OTHER -> {<<>>}

\* the record of a constructor call: its outcome and the arguments it was given
ConstructorCall(result, type, parameters, hyperParameters) ==
    [op |-> "construct", result |-> result, reported |-> FALSE,
     arguments |-> [type |-> type, parameters |-> parameters,
                    hyperParameters |-> hyperParameters]]

\* no learner has been constructed
InitConstruction ==
    /\ learnerType = "none"
    /\ m_additionalOptions = <<>>
    /\ m_hyperParameters = <<>>
    /\ m_learningRateSchedule = <<>>
    /\ parameterValue = <<>>
    /\ valueTimeStamp = <<>>
    /\ m_smoothedGradientValues = <<>>
    /\ m_sampleCount = 0
    /\ m_minibatchCount = 0
    /\ m_sweepCount = 0
    /\ m_noiseInjectionSeed = 0
    /\ m_smoothedCount = 0
    /\ m_trainingParametersMap = EmptyDictionary
    /\ gradientConstants = <<>>
    /\ checkpoint = EmptyDictionary
    /\ checkpointedCounters = Counters(Learner)
    /\ call = Call("none", "void", FALSE)
    /\ calls = 0

\* a constructor call: on success the fields of the new learner, on failure
\* no learner
ConstructCall(type, parameters, options, hyperParameters) ==
    LET result == ConstructorOutcome(type, parameters, hyperParameters)
    IN  /\ call.op = "none"
        /\ call' = ConstructorCall(result, type, parameters, hyperParameters)
        /\ IF result = "void"
           THEN /\ learnerType' = type
                /\ m_additionalOptions' = options
                /\ m_hyperParameters' = hyperParameters
                /\ m_learningRateSchedule' =
                       IF type = "Universal" THEN UniversalSchedule
                       ELSE ConstructorSchedule
                /\ parameterValue' =
                       [p \in Range(parameters) |-> InitialParameterValue(p)]
                /\ valueTimeStamp' = [p \in Range(parameters) |-> 0]
                /\ m_smoothedGradientValues' =
                       [p \in Range(parameters) |->
                           AllocateNDArrayView(p, SmoothedShape(type, p))]
                /\ m_noiseInjectionSeed' = GenerateRandomSeed
                /\ gradientConstants' =
                       [p \in Range(parameters) |-> ConstView("", ParamShape(p), 0).data]
           ELSE UNCHANGED <<learnerType, m_additionalOptions, m_hyperParameters,
                            m_learningRateSchedule, parameterValue, valueTimeStamp,
                            m_smoothedGradientValues, m_noiseInjectionSeed,
                            gradientConstants>>
        /\ UNCHANGED <<m_sampleCount, m_minibatchCount, m_sweepCount, m_smoothedCount,
                       m_trainingParametersMap, checkpoint, checkpointedCounters, calls>>

\* the caller, having no learner, constructs one with any offered arguments
Construct ==
    /\ call.op = "none"
    /\ \E type \in LearnerTypes, parameters \in ParameterLists :
          \E options \in (IF type = "Universal" THEN {DefaultOptions} ELSE OptionInputs),
             hyperParameters \in HyperParameterInputs(type) :
              ConstructCall(type, parameters, options, hyperParameters)

NextConstruction == Construct

SpecConstruction == InitConstruction /\ [][NextConstruction]_vars

\* the outcome is a configuration error
IsConfigurationError(result) ==
    result \in {"InvalidArgument: parameters", "InvalidArgument: epsilon",
                "LogicError: RMSProp"}

\* C14: constructing any learner with an empty parameter list or with a list
\* that holds a parameter more than once fails with a configuration error; a
\* non-empty duplicate-free list passes this check, and a constructed learner
\* has exactly one smoothed-gradient entry per parameter.
C14_ParameterListChecked ==
    call.op = "construct"
    => LET parameters == call.arguments.parameters
           bad == \/ parameters = <<>>
                  \/ \E i, j \in 1..Len(parameters) : i # j /\ parameters[i] = parameters[j]
       IN  /\ bad => IsConfigurationError(call.result)
           /\ ~bad => call.result # "InvalidArgument: parameters"
           /\ call.result = "void"
                => /\ DOMAIN m_smoothedGradientValues = Range(parameters)
                   /\ Cardinality(DOMAIN m_smoothedGradientValues) = Len(parameters)

\* the construction of an AdaGrad learner with a repeated parameter failed
C14_Witness ==
    /\ call.op = "construct"
    /\ call.arguments.type = "AdaGrad"
    /\ Len(call.arguments.parameters) = 2
    /\ call.arguments.parameters[1] = call.arguments.parameters[2]
    /\ call.result = "InvalidArgument: parameters"
    /\ learnerType = "none"

\* the conditions on the RMSProp settings: 0 < gamma < 1, inc > 1, 0 < dec < 1
\* and 0 < min < max
RMSPropConditions(h) ==
    /\ LessThan(Double(0), h.m_gamma) /\ LessThan(h.m_gamma, Double(HyperUnit))
    /\ LessThan(Double(HyperUnit), h.m_inc)
    /\ LessThan(Double(0), h.m_dec) /\ LessThan(h.m_dec, Double(HyperUnit))
    /\ LessThan(Double(0), h.m_min) /\ LessThan(h.m_min, h.m_max)

\* C15: RMSProp construction (with a valid parameter list) succeeds if and only
\* if 0 < gamma < 1, inc > 1, 0 < dec < 1 and 0 < min < max all hold; every
\* combination that violates one of them fails with a configuration error.
C15_RMSPropSettingsValidated ==
    (/\ call.op = "construct"
     /\ call.arguments.type = "RMSProp"
     /\ LearnerBaseConstructor(call.arguments.parameters) = "void")
    => /\ call.result = "void" <=> RMSPropConditions(call.arguments.hyperParameters)
       /\ ~RMSPropConditions(call.arguments.hyperParameters)
            => IsConfigurationError(call.result)

\* the statement holds for settings that are numbers (none of them NaN)
RMSPropNumbersValidated ==
    (/\ call.op = "construct"
     /\ call.arguments.type = "RMSProp"
     /\ LearnerBaseConstructor(call.arguments.parameters) = "void"
     /\ \A f \in DOMAIN call.arguments.hyperParameters :
           ~call.arguments.hyperParameters[f].isNaN)
    => /\ call.result = "void" <=> RMSPropConditions(call.arguments.hyperParameters)
       /\ ~RMSPropConditions(call.arguments.hyperParameters)
            => IsConfigurationError(call.result)

\* the step is a call of ResetSmoothedGradients
ResetSmoothedGradientsStep ==
    call'.op = "ResetSmoothedGradients" /\ calls' = calls + 1

\* C16: ResetSmoothedGradients sets every element of every smoothed-gradient
\* tensor to zero and, for FSAdaGrad, Adam and RMSProp, m_smoothedCount to 0; it
\* leaves the parameter values, the three counters, the learning-rate schedule
\* and the noise seed unchanged.
C16_ResetSmoothedGradientsZeroes ==
    [][ResetSmoothedGradientsStep
        => /\ \A p \in ParameterSet :
                /\ \A i \in DOMAIN m_smoothedGradientValues'[p].data :
                      m_smoothedGradientValues'[p].data[i] = 0
                /\ m_smoothedGradientValues'[p].shape = m_smoothedGradientValues[p].shape
                /\ m_smoothedGradientValues'[p].dataType
                       = m_smoothedGradientValues[p].dataType
                /\ Len(m_smoothedGradientValues'[p].data)
                       = Len(m_smoothedGradientValues[p].data)
           /\ HasSmoothedCount(learnerType) => m_smoothedCount' = 0
           /\ UNCHANGED <<parameterValue, m_sampleCount, m_minibatchCount, m_sweepCount,
                          m_learningRateSchedule, m_noiseInjectionSeed>>]_vars

\* a trained Adam learner, never restored, right after ResetSmoothedGradients
C16_Witness ==
    /\ call.op = "ResetSmoothedGradients"
    /\ learnerType = "Adam"
    /\ m_minibatchCount > 0
    /\ checkpoint = EmptyDictionary
    /\ m_smoothedCount = 0
    /\ \A p \in ParameterSet : \A i \in DOMAIN m_smoothedGradientValues[p].data :
          m_smoothedGradientValues[p].data[i] = 0

\* C17: on a universal learner no minibatch-level Update reaches the
\* single-parameter Update (a LogicError); a successful Update runs neither the
\* shared pre-processing nor the post-processing: the noise seed is unchanged,
\* no parameter is stamped by the per-parameter path and the gradient constants
\* hold the gradients as given; the three counters advance as in the base Update.
C17_UniversalUpdateIsDelegated ==
    [][(UpdateStep /\ learnerType = "Universal")
        => /\ call'.result # LearnerUniversalUpdateParameter
           /\ call'.result \in {"true", "false", "InvalidArgument", "out_of_range"}
           /\ call'.result = "true"
                => /\ m_noiseInjectionSeed' = m_noiseInjectionSeed
                   /\ valueTimeStamp' = valueTimeStamp
                   /\ m_smoothedGradientValues' = m_smoothedGradientValues
                   /\ \A in \in UpdateInputs :
                         UpdateCall(in.gradientValues, in.trainingSampleCount, in.sweepEnd)
                         => /\ gradientConstants' = in.gradientValues
                            /\ parameterValue' =
                                   [p \in ParameterSet |->
                                       ScaleAndAdd(-1, in.gradientValues[p],
                                                   parameterValue[p])]
                            /\ Counters(Learner') =
                                   Counters(AdvanceCounters(Learner, in.trainingSampleCount,
                                                            in.sweepEnd))]_vars

\* a universal learner after a successful two-sample Update that ended a sweep
C17_Witness ==
    /\ call.op = "Update"
    /\ call.result = "true"
    /\ learnerType = "Universal"
    /\ m_sampleCount = 2
    /\ m_minibatchCount = 1
    /\ m_sweepCount = 1
    /\ m_noiseInjectionSeed = GenerateRandomSeed
    /\ \A p \in ParameterSet : valueTimeStamp[p] = 0
    /\ \E p \in ParameterSet : parameterValue[p] # InitialParameterValue(p)

\* an Update of a learner that takes the per-parameter path of LearnerBase
BaseUpdateStep == UpdateStep /\ learnerType # "Universal"

\* C18 as stated: a successful Update of a learner with m parameters advances
\* the noise seed by m, whether or not the noise standard deviation is
\* positive, and no Update decreases the seed.
C18_SeedAdvancesPerPostProcess ==
    [][BaseUpdateStep
        => /\ call'.result = "true"
                => m_noiseInjectionSeed' = m_noiseInjectionSeed + Len(Parameters)
           /\ m_noiseInjectionSeed' >= m_noiseInjectionSeed]_vars

\* C18 amended: a successful Update of a learner with m parameters advances
\* the noise seed by m when the noise standard deviation is positive and
\* leaves it unchanged otherwise; no Update decreases the seed.
C18_SeedAdvancesPerNoiseDraw ==
    [][BaseUpdateStep
        => /\ call'.result = "true"
                => m_noiseInjectionSeed' =
                       m_noiseInjectionSeed +
                       (IF m_additionalOptions.gaussianNoiseInjectionStdDev > 0
                        THEN Len(Parameters) ELSE 0)
           /\ m_noiseInjectionSeed' >= m_noiseInjectionSeed]_vars

\* two successful Updates with noise injection have advanced the seed twice by
\* the number of parameters
C18_Witness ==
    /\ call.op = "Update"
    /\ call.result = "true"
    /\ learnerType # "Universal"
    /\ m_additionalOptions.gaussianNoiseInjectionStdDev > 0
    /\ m_minibatchCount = 2
    /\ m_noiseInjectionSeed = GenerateRandomSeed + 2 * Len(Parameters)

(***************************************************************************)
(* Gradient clipping on its own: a learner is constructed with some         *)
(* clipping options and ClipGradient is applied to a gradient               *)
(***************************************************************************)
\* largest magnitude of a gradient element
MaxGradient == 8

\* the clipping settings a caller passes to the constructor
ClipOptionInputs ==
    { [DefaultOptions EXCEPT !.gradientClippingThresholdPerSample = t,
                             !.gradientClippingWithTruncation = b] :
          t \in {Infinity, 1, 5}, b \in BOOLEAN }

\* the gradient matrices: one of the shape of each parameter
ClipGradientInputs ==
    UNION { [1..TotalSize(ParamShape(p)) -> (-MaxGradient)..MaxGradient] :
                p \in ParameterSet }

\* gradient.FrobeniusNorm() is a whole number and maxGradientPerMB / gradientNorm
\* scales every element to a whole number: the doubles of the norm branch are
\* then exactly the integers of the model
ExactlyScaled(gradient, maxGradientPerMB) ==
    LET gradientNorm == Isqrt(SumSq(gradient))
    IN  /\ gradientNorm * gradientNorm = SumSq(gradient)
        /\ gradientNorm > 0
        /\ \A i \in DOMAIN gradient : (gradient[i] * maxGradientPerMB) % gradientNorm = 0

\* the calls of ClipGradient whose arithmetic the integers represent exactly
ClipInputs(options) ==
    { in \in [gradient : ClipGradientInputs, actualMBSize : {1, 2}] :
        \/ options.gradientClippingThresholdPerSample = Infinity
        \/ options.gradientClippingWithTruncation
        \/ SumSq(in.gradient) = 0
        \/ ExactlyScaled(in.gradient,
                         options.gradientClippingThresholdPerSample * in.actualMBSize) }

InitClip ==
    /\ learnerType = "SGD"
    /\ m_additionalOptions \in ClipOptionInputs
    /\ m_hyperParameters = ConstructorHyperParameters(learnerType)
    /\ m_learningRateSchedule = ConstructorSchedule
    /\ parameterValue = [p \in ParameterSet |-> InitialParameterValue(p)]
    /\ valueTimeStamp = [p \in ParameterSet |-> 0]
    /\ m_smoothedGradientValues =
           [p \in ParameterSet |-> AllocateNDArrayView(p, SmoothedShape(learnerType, p))]
    /\ m_sampleCount = 0
    /\ m_minibatchCount = 0
    /\ m_sweepCount = 0
    /\ m_noiseInjectionSeed = GenerateRandomSeed
    /\ m_smoothedCount = 0
    /\ m_trainingParametersMap = EmptyDictionary
    /\ gradientConstants = [p \in ParameterSet |-> GradientMap(ParameterSet, 0)[p]]
    /\ checkpoint = EmptyDictionary
    /\ checkpointedCounters = Counters(Learner)
    /\ call = Call("construct", "void", FALSE)
    /\ calls = 0

\* ClipGradient(gradient, actualMBSize) on the constructed learner: a const
\* member function, its result is the gradient matrix after the call
ClipGradientCall(gradient, actualMBSize) ==
    /\ call' = [op |-> "ClipGradient",
                result |-> ClipGradient(m_additionalOptions, gradient, actualMBSize),
                reported |-> FALSE,
                arguments |-> [gradient |-> gradient, actualMBSize |-> actualMBSize]]
    /\ calls' = calls + 1
    /\ UNCHANGED <<learnerType, m_additionalOptions, m_hyperParameters, parameterValue,
                   valueTimeStamp, m_smoothedGradientValues, m_sampleCount,
                   m_minibatchCount, m_sweepCount, m_learningRateSchedule,
                   m_noiseInjectionSeed, m_smoothedCount, m_trainingParametersMap,
                   gradientConstants, checkpoint, checkpointedCounters>>

DoClipGradient ==
    /\ calls = 0
    /\ \E in \in ClipInputs(m_additionalOptions) :
          ClipGradientCall(in.gradient, in.actualMBSize)

NextClip == DoClipGradient

SpecClip == InitClip /\ [][NextClip]_vars

\* gradientClippingThresholdPerSample * actualMBSize of the recorded call
MaxGradientPerMB ==
    m_additionalOptions.gradientClippingThresholdPerSample * call.arguments.actualMBSize

\* C19: with a finite threshold T and truncation on, ClipGradient leaves every
\* element of magnitude at most T * n unchanged and replaces every other element
\* by T * n with the element's sign; with an infinite threshold it never
\* modifies the gradient, whatever the truncation setting.
C19_TruncationClipping ==
    call.op = "ClipGradient"
    => LET gradient == call.arguments.gradient
           clipped == call.result
       IN  /\ DOMAIN clipped = DOMAIN gradient
           /\ m_additionalOptions.gradientClippingThresholdPerSample = Infinity
                => clipped = gradient
           /\ ( /\ m_additionalOptions.gradientClippingThresholdPerSample # Infinity
                /\ m_additionalOptions.gradientClippingWithTruncation )
                => \A i \in DOMAIN gradient :
                      /\ ( /\ gradient[i] <= MaxGradientPerMB
                           /\ gradient[i] >= -MaxGradientPerMB )
                           => clipped[i] = gradient[i]
                      /\ gradient[i] > MaxGradientPerMB
                           => clipped[i] = MaxGradientPerMB
                      /\ gradient[i] < -MaxGradientPerMB
                           => clipped[i] = -MaxGradientPerMB

\* truncation with threshold 1 and two samples has cut the element -5 to -2 and
\* has kept the element 1
C19_Witness ==
    /\ call.op = "ClipGradient"
    /\ m_additionalOptions.gradientClippingThresholdPerSample = 1
    /\ m_additionalOptions.gradientClippingWithTruncation
    /\ call.arguments.actualMBSize = 2
    /\ call.arguments.gradient = <<-5, 1>>
    /\ call.result = <<-2, 1>>

\* C20: with a finite threshold T and truncation off, ClipGradient leaves the
\* gradient unchanged when its Frobenius norm is at most T * n; otherwise every
\* element is multiplied by (T * n) / norm, so that the norm after clipping is
\* T * n and the direction of the gradient is preserved.
C20_NormClipping ==
    ( /\ call.op = "ClipGradient"
      /\ m_additionalOptions.gradientClippingThresholdPerSample # Infinity
      /\ ~m_additionalOptions.gradientClippingWithTruncation )
    => LET gradient == call.arguments.gradient
           clipped == call.result
           gradientNorm == Isqrt(SumSq(gradient))
       IN  IF SumSq(gradient) <= MaxGradientPerMB * MaxGradientPerMB
           THEN clipped = gradient
           ELSE /\ DOMAIN clipped = DOMAIN gradient
                /\ \A i \in DOMAIN gradient :
                      clipped[i] * gradientNorm = gradient[i] * MaxGradientPerMB
                /\ SumSq(clipped) = MaxGradientPerMB * MaxGradientPerMB
                /\ \A i, j \in DOMAIN gradient :
                      /\ clipped[i] * gradient[j] = clipped[j] * gradient[i]
                      /\ clipped[i] * gradient[i] >= 0

\* norm clipping with threshold 5 and one sample has scaled the gradient
\* (-6, 8) of norm 10 to (-3, 4) of norm 5
C20_Witness ==
    /\ call.op = "ClipGradient"
    /\ m_additionalOptions.gradientClippingThresholdPerSample = 5
    /\ ~m_additionalOptions.gradientClippingWithTruncation
    /\ call.arguments.actualMBSize = 1
    /\ call.arguments.gradient = <<-6, 8>>
    /\ call.result = <<-3, 4>>

(***************************************************************************)
(* Pre-processing on its own: a learner is constructed with some clipping   *)
(* and L2 options and PreProcess is applied to one parameter's gradient     *)
(***************************************************************************)
\* the clipping and L2 settings a caller passes to the constructor
PreProcessOptionInputs ==
    { [DefaultOptions EXCEPT !.gradientClippingThresholdPerSample = t,
                             !.gradientClippingWithTruncation = b,
                             !.l2RegularizationWeight = w] :
          t \in {Infinity, 1}, b \in BOOLEAN, w \in {-1, 0, 1} }

\* the calls of PreProcess on parameter p whose clipping the integers
\* represent exactly
PreProcessInputs(options, p) ==
    { in \in [gradient : [1..TotalSize(ParamShape(p)) -> ValueInputs],
              actualMBSize : {1, 2}] :
        \/ options.gradientClippingThresholdPerSample = Infinity
        \/ options.gradientClippingWithTruncation
        \/ SumSq(in.gradient) = 0
        \/ ExactlyScaled(in.gradient,
                         options.gradientClippingThresholdPerSample * in.actualMBSize) }

InitPreProcess ==
    /\ learnerType = "SGD"
    /\ m_additionalOptions \in PreProcessOptionInputs
    /\ m_hyperParameters = ConstructorHyperParameters(learnerType)
    /\ m_learningRateSchedule = ConstructorSchedule
    /\ \E v \in ValueInputs :
          parameterValue = [p \in ParameterSet |-> ConstView("", ParamShape(p), v).data]
    /\ valueTimeStamp = [p \in ParameterSet |-> 0]
    /\ m_smoothedGradientValues =
           [p \in ParameterSet |-> AllocateNDArrayView(p, SmoothedShape(learnerType, p))]
    /\ m_sampleCount = 0
    /\ m_minibatchCount = 0
    /\ m_sweepCount = 0
    /\ m_noiseInjectionSeed = GenerateRandomSeed
    /\ m_smoothedCount = 0
    /\ m_trainingParametersMap = EmptyDictionary
    /\ gradientConstants = [p \in ParameterSet |-> GradientMap(ParameterSet, 0)[p]]
    /\ checkpoint = EmptyDictionary
    /\ checkpointedCounters = Counters(Learner)
    /\ call = Call("construct", "void", FALSE)
    /\ calls = 0

\* PreProcess(parameter.Value(), gradientValue, actualMBSize): a const member
\* function that writes the gradient matrix only; its result is that matrix
\* after the call
PreProcessCall(p, gradient, actualMBSize) ==
    /\ call' = [op |-> "PreProcess",
                result |-> PreProcess(m_additionalOptions, parameterValue[p],
                                      gradient, actualMBSize),
                reported |-> FALSE,
                arguments |-> [parameter |-> p, value |-> parameterValue[p],
                               gradient |-> gradient, actualMBSize |-> actualMBSize]]
    /\ calls' = calls + 1
    /\ UNCHANGED <<learnerType, m_additionalOptions, m_hyperParameters, parameterValue,
                   valueTimeStamp, m_smoothedGradientValues, m_sampleCount,
                   m_minibatchCount, m_sweepCount, m_learningRateSchedule,
                   m_noiseInjectionSeed, m_smoothedCount, m_trainingParametersMap,
                   gradientConstants, checkpoint, checkpointedCounters>>

DoPreProcess ==
    /\ calls = 0
    /\ \E p \in ParameterSet :
          \E in \in PreProcessInputs(m_additionalOptions, p) :
              PreProcessCall(p, in.gradient, in.actualMBSize)

NextPreProcess == DoPreProcess

SpecPreProcess == InitPreProcess /\ [][NextPreProcess]_vars

\* C21: the gradient that PreProcess hands on is clip(G) + w * n * P when the L2
\* weight w is positive (the L2 term is added after clipping and is not
\* clipped) and exactly clip(G) when w is 0 or negative; the parameter value
\* is as it was before the call.
C21_ClipThenRegularize ==
    call.op = "PreProcess"
    => LET a == call.arguments
           w == m_additionalOptions.l2RegularizationWeight
           clipped == ClipGradient(m_additionalOptions, a.gradient, a.actualMBSize)
       IN  /\ DOMAIN call.result = DOMAIN a.gradient
           /\ \A i \in DOMAIN a.gradient :
                 call.result[i] =
                     IF w > 0 THEN clipped[i] + w * a.actualMBSize * a.value[i]
                     ELSE clipped[i]
           /\ parameterValue[a.parameter] = a.value

\* the gradient 2 of a parameter of value 2 was truncated to 1 and the L2 term
\* 2 was added to it: the result 3 lies above the clipping threshold
C21_Witness ==
    /\ call.op = "PreProcess"
    /\ m_additionalOptions.gradientClippingThresholdPerSample = 1
    /\ m_additionalOptions.gradientClippingWithTruncation
    /\ m_additionalOptions.l2RegularizationWeight = 1
    /\ call.arguments.actualMBSize = 1
    /\ call.arguments.value = <<2>>
    /\ call.arguments.gradient = <<2>>
    /\ call.result = <<3>>

\* the learning rate last written to the progress sinks: the entry of
\* m_trainingParametersMap (a one-element set, empty before the first report)
LastReportedLearningRate(st) ==
    IF "Learning rate" \in DOMAIN st.m_trainingParametersMap
    THEN {st.m_trainingParametersMap["Learning rate"]}
    ELSE {}

\* C22: an Update call, whatever it returns, writes the learning rate to the
\* progress sinks exactly when none was reported before or the schedule's
\* current value differs from the one last reported; the value last reported
\* is then the current one, and no other operation changes it. An Update right
\* after an Update writes exactly when the rate at the current count differs
\* from the rate of the previous call: at the same rate it writes nothing.
C22_LearningRateReportedOnChange ==
    [][IF UpdateStep
       THEN /\ call'.reported
                <=> LastReportedLearningRate(Learner) # {LearningRatePerSample(Learner)}
            /\ LastReportedLearningRate(Learner') = {LearningRatePerSample(Learner)}
            /\ call.op = "Update"
                => (call'.reported
                      <=> m_trainingParametersMap["Learning rate"]
                              # LearningRatePerSample(Learner))
       ELSE LastReportedLearningRate(Learner') = LastReportedLearningRate(Learner)]_vars

\* the second Update of a learner found the rate changed from 1 to 0: it wrote
\* the new rate to the sinks and returned false
C22_Witness ==
    /\ call.op = "Update"
    /\ call.result = "false"
    /\ call.reported
    /\ m_minibatchCount = 1
    /\ calls = 2
    /\ LastReportedLearningRate(Learner) = {0}

\* C23 as stated: UpdateOnMinibatch takes effect exactly once in an Update that
\* returns true and in no other Update, so that m_smoothedCount of Adam and
\* RMSProp counts the Updates that returned true and FSAdaGrad applies its
\* recurrence once per such Update.
C23_HookOncePerSuccessfulUpdate ==
    [][BaseUpdateStep
        => \A in \in UpdateInputs :
              UpdateCall(in.gradientValues, in.trainingSampleCount, in.sweepEnd)
              => m_smoothedCount' =
                     IF call'.result = "true"
                     THEN UpdateOnMinibatch(Learner, in.trainingSampleCount).m_smoothedCount
                     ELSE m_smoothedCount]_vars

\* C23 amended: UpdateOnMinibatch takes effect exactly once in every Update that
\* passes the zero-rate and the empty-minibatch checks, whether the Update
\* then returns true or fails at a missing gradient, and in no Update that
\* returns false or rejects an empty minibatch; m_smoothedCount of Adam and
\* RMSProp grows by one and that of FSAdaGrad is averaged with the sample count
\* once per such Update, whatever the number of parameters.
C23_HookOncePerCheckedUpdate ==
    [][BaseUpdateStep
        => IF learnerType = "FSAdaGrad"
           THEN \A in \in UpdateInputs :
                   UpdateCall(in.gradientValues, in.trainingSampleCount, in.sweepEnd)
                   => m_smoothedCount' =
                          IF call'.result \in {"false", "InvalidArgument"}
                          THEN m_smoothedCount
                          ELSE UpdateOnMinibatch(
                                   Learner, in.trainingSampleCount).m_smoothedCount
           ELSE \A n \in SampleCountInputs :
                   m_smoothedCount' =
                       IF call'.result \in {"false", "InvalidArgument"}
                       THEN m_smoothedCount
                       ELSE UpdateOnMinibatch(Learner, n).m_smoothedCount]_vars

\* the first Update of an Adam learner failed at the gradient of the first
\* parameter: no parameter was updated, yet m_smoothedCount is one
C23_Witness ==
    /\ call.op = "Update"
    /\ call.result = "out_of_range"
    /\ learnerType = "Adam"
    /\ calls = 1
    /\ \A p \in ParameterSet : valueTimeStamp[p] = 0
    /\ m_minibatchCount = 0
    /\ m_smoothedCount = SmoothedCountUnit

\* the value the i-th parameter has after PreProcess, the variant's update and
\* PostProcess when the learning rate is learningRate throughout
ValueAtRate(i, gradientValue, trainingSampleCount, learningRate) ==
    LET p == Parameters[i]
        noisy == m_additionalOptions.gaussianNoiseInjectionStdDev > 0
        gradient == PreProcess(m_additionalOptions, parameterValue[p],
                               gradientValue, trainingSampleCount)
        stepped == TypedUpdate(learnerType, parameterValue[p], gradient,
                               m_smoothedGradientValues[p].data, learningRate)
    IN  PostProcess(m_additionalOptions, stepped.value,
                    m_noiseInjectionSeed + (IF noisy THEN i - 1 ELSE 0),
                    learningRate, trainingSampleCount).value

\* C24: in a successful Update every parameter is updated, and its L1
\* threshold computed, with the schedule's value at the counters held before
\* the call, whatever the position of the parameter and the size of the
\* minibatch; the counters advance only after the last parameter.
C24_OneLearningRatePerUpdate ==
    [][(BaseUpdateStep /\ call'.result = "true")
        => \A in \in UpdateInputs :
              UpdateCall(in.gradientValues, in.trainingSampleCount, in.sweepEnd)
              => \A i \in DOMAIN Parameters :
                    parameterValue'[Parameters[i]] =
                        ValueAtRate(i, in.gradientValues[Parameters[i]],
                                    in.trainingSampleCount,
                                    LearningRatePerSample(Learner))]_vars

\* the first Update of an SGD learner took the schedule from rate 1 to rate 0
\* by its two samples, and every parameter was stepped at rate 1
C24_Witness ==
    /\ call.op = "Update"
    /\ call.result = "true"
    /\ learnerType = "SGD"
    /\ calls = 1
    /\ m_sampleCount = 2
    /\ LearningRatePerSample(Learner) = 0
    /\ \A p \in ParameterSet : parameterValue[p] # InitialParameterValue(p)

(***************************************************************************)
(* Processing orders: the learner is constructed with the parameters in     *)
(* some order and LearnerBase::Update processes them in that order          *)
(***************************************************************************)
\* the orders in which a constructor can be handed the parameters
Orders ==
    { order \in [1..Len(Parameters) -> ParameterSet] :
          \A i, j \in DOMAIN order : order[i] = order[j] => i = j }

\* the option sets of a constructor: clipping, L2, L1 and noise injection are
\* switched on one by one
OrderOptionInputs ==
    { [gradientClippingThresholdPerSample |-> IF clip THEN 1 ELSE Infinity,
       gradientClippingWithTruncation |-> TRUE,
       l2RegularizationWeight |-> l2,
       l1RegularizationWeight |-> l1,
       gaussianNoiseInjectionStdDev |-> noise] :
          clip \in BOOLEAN, l2 \in {0, 1}, l1 \in {0, 1}, noise \in {0, 1} }

RECURSIVE UpdateInOrder(_, _, _, _)
\* the loop of LearnerBase::Update over Parameters() when the constructor was
\* handed the parameters in the given order (every gradient present)
UpdateInOrder(st, order, gradientValues, trainingSampleCount) ==
    IF order = <<>>
    THEN st
    ELSE UpdateInOrder(
             UpdateParameter(st, Head(order), gradientValues[Head(order)],
                             trainingSampleCount),
             Tail(order), gradientValues, trainingSampleCount)

\* LearnerBase::Update up to the end of the parameter loop, for a non-zero
\* rate, a non-empty minibatch and a complete gradient map
UpdateLoopInOrder(st, order, gradientValues, trainingSampleCount) ==
    UpdateInOrder(
        UpdateOnMinibatch(
            ReportTrainingParameterValue(
                st, "Learning rate", LearningRatePerSample(st)).state,
            trainingSampleCount),
        order, gradientValues, trainingSampleCount)

InitOrder ==
    /\ learnerType \in LearnerTypes \ {"Universal"}
    /\ m_additionalOptions \in OrderOptionInputs
    /\ m_hyperParameters = ConstructorHyperParameters(learnerType)
    /\ m_learningRateSchedule = ConstructorSchedule
    /\ parameterValue = [p \in ParameterSet |-> InitialParameterValue(p)]
    /\ valueTimeStamp = [p \in ParameterSet |-> 0]
    /\ m_smoothedGradientValues =
           [p \in ParameterSet |-> AllocateNDArrayView(p, SmoothedShape(learnerType, p))]
    /\ m_sampleCount = 0
    /\ m_minibatchCount = 0
    /\ m_sweepCount = 0
    /\ m_noiseInjectionSeed = GenerateRandomSeed
    /\ m_smoothedCount = 0
    /\ m_trainingParametersMap = EmptyDictionary
    /\ gradientConstants = [p \in ParameterSet |-> GradientMap(ParameterSet, 0)[p]]
    /\ checkpoint = EmptyDictionary
    /\ checkpointedCounters = Counters(Learner)
    /\ \E order \in Orders :
          call = [op |-> "construct", result |-> "void", reported |-> FALSE,
                  arguments |-> [parameters |-> order]]
    /\ calls = 0

\* Update(gradientValues, trainingSampleCount, false) that returns true, on the
\* learner whose Parameters() is the list handed to its constructor
UpdateInOrderCall(gradientValues, trainingSampleCount) ==
    /\ LearningRatePerSample(Learner) # 0
    /\ Becomes(AdvanceCounters(
                   UpdateLoopInOrder(Learner, call.arguments.parameters,
                                     gradientValues, trainingSampleCount),
                   trainingSampleCount, FALSE))
    /\ call' = [op |-> "Update", result |-> "true",
                reported |-> ReportTrainingParameterValue(
                                 Learner, "Learning rate",
                                 LearningRatePerSample(Learner)).written,
                arguments |-> call.arguments]
    /\ calls' = calls + 1
    /\ UNCHANGED <<learnerType, m_additionalOptions, m_hyperParameters, checkpoint,
                   checkpointedCounters>>

DoUpdateInOrder ==
    /\ calls < MaxCalls
    /\ \E g \in GradientElements, n \in SampleCountInputs \ {0} :
          UpdateInOrderCall(GradientMap(ParameterSet, g), n)

NextOrder == DoUpdateInOrder

SpecOrder == InitOrder /\ [][NextOrder]_vars

\* the value and the smoothed gradient of every parameter
PerParameterResult(st) ==
    [p \in ParameterSet |->
        [value |-> st.parameterValue[p], smoothed |-> st.m_smoothedGradientValues[p]]]

\* C25 as stated: an Update leaves every parameter with the value and the
\* smoothed gradient that any other processing order would have left, from
\* the same learner state and gradients, noise injection included.
C25_OrderIndependent ==
    [][UpdateStep
        => \A g \in GradientElements, n \in SampleCountInputs \ {0} :
              UpdateInOrderCall(GradientMap(ParameterSet, g), n)
              => \A order \in Orders :
                    PerParameterResult(Learner') =
                        PerParameterResult(
                            UpdateLoopInOrder(Learner, order,
                                              GradientMap(ParameterSet, g), n))]_vars

\* C25 amended: an Update leaves every parameter with the smoothed gradient
\* that any other processing order would have left, and, when no Gaussian
\* noise is injected, with the same value as well.
C25_OrderIndependentWithoutNoise ==
    [][UpdateStep
        => \A g \in GradientElements, n \in SampleCountInputs \ {0} :
              UpdateInOrderCall(GradientMap(ParameterSet, g), n)
              => \A order \in Orders :
                    LET other == UpdateLoopInOrder(Learner, order,
                                                   GradientMap(ParameterSet, g), n)
                    IN  /\ m_smoothedGradientValues' = other.m_smoothedGradientValues
                        /\ m_additionalOptions.gaussianNoiseInjectionStdDev <= 0
                             => parameterValue' = other.parameterValue]_vars

\* an Adam learner with clipping, L2 and L1 but no noise, constructed with the
\* parameters in reverse order, after two Updates
C25_Witness ==
    /\ call.op = "Update"
    /\ "arguments" \in DOMAIN call
    /\ call.arguments.parameters[1] = Parameters[Len(Parameters)]
    /\ learnerType = "Adam"
    /\ m_additionalOptions.gaussianNoiseInjectionStdDev = 0
    /\ m_additionalOptions.l1RegularizationWeight = 1
    /\ m_additionalOptions.l2RegularizationWeight = 1
    /\ m_additionalOptions.gradientClippingThresholdPerSample = 1
    /\ m_minibatchCount = 2
    /\ \A p \in ParameterSet : valueTimeStamp[p] = 2

====
